---- MODULE Spec2Model ----
(***************************************************************************)
(* Hegemon: the debate controller (LangGraph workflows of graph.py,        *)
(* graph_hitl_v2.py and graph_hitl_v3.py), its checkpoint nodes and the     *)
(* feedback handlers that resolve them.                                     *)
(*                                                                         *)
(* One run of one workflow is modelled.  `graph` says which workflow        *)
(* definition the run was compiled from:                                    *)
(*   "base"  graph.py                 create_hegemon_graph                  *)
(*   "v2"    graph_hitl_v2.py         create_hegemon_graph_hitl_v2          *)
(*           (archive/graph_hitl_v1.py has the same nodes and edges)        *)
(*   "v3"    graph_hitl_v3.py         create_hegemon_graph_hitl_v3, also    *)
(*           built by streamlit_app/utils/debate_runner.py                  *)
(* Scores are percentages (0.7 is 70).  Time is the superstep counter.     *)
(***************************************************************************)
EXTENDS Integers, Sequences, FiniteSets, TLC

\* ---------------------------------------------------------------- bounds
\* max_cycles is offered from 0..MaxCyclesCfg and min_cycles from
\* 0..MinCyclesCfg, and DebateConfig keeps what the settings accept; a run
\* is followed for MaxSteps supersteps
MaxCyclesCfg == 2
MinCyclesCfg == 2
MaxSteps == 17
\* the guidance box is followed for the first MaxTyped feedbacks of a run;
\* the feedbacks after them carry the guidance CannedGuidance gives
MaxTyped == 1
\* LibSpec makes at most MaxTrackCalls calls of track_revision
MaxTrackCalls == 5
\* the prompt builders are called on histories of at most MaxHistory
\* feedbacks, the long guidance has LongLen characters
MaxHistory == 4
\* a Streamlit session starts at most MaxRuns debates
MaxRuns == 2
LongLen == 1990
\* the contradiction detector is called on histories of at most MaxDetect
\* feedbacks
MaxDetect == 3
\* ThreadSpec follows the threads of a session through MaxCheckpoints
\* checkpoints
MaxCheckpoints == 2
\* CacheSpec makes at most MaxClassifyCalls calls of classify
MaxClassifyCalls == 3

\* ------------------------------------------------------ program constants
consensus_threshold == 70
HardConsensusThreshold == 70
HardMaxCycles == 5
max_revisions_per_cycle == 3
MAX_REVISIONS_PER_CHECKPOINT == 3
MIN_GUIDANCE_LENGTH == 10
MAX_GUIDANCE_LENGTH == 2000

Scores == {40, 70}
Missions == {"Design AI system"}
Graphs == {"base", "v2", "v3"}
Handlers == {"jupyter", "simple", "streamlit"}
InterventionMode == {"observer", "reviewer", "collaborator"}
FeedbackDecision == {"approve", "revise", "reject"}
CheckpointType == {"post_thesis", "post_evaluation", "pre_synthesis"}

VARIABLES
    mission,
    graph,                    \* which workflow definition is running
    handler,                  \* v3: the checkpoint handler's UI
    max_cycles,               \* settings.debate.max_cycles (the configured cap)
    min_cycles,               \* settings.debate.min_cycles
    node,                     \* the node LangGraph runs next
    prev,                     \* the node that ran last
    waiting,                  \* v3: blocked inside handle_checkpoint
    steps,                    \* supersteps done; also the clock
    contributions,
    current_consensus_score,
    cycle_count,
    final_plan,
    intervention_mode,
    current_checkpoint,
    paused_at,
    human_feedback,
    revision_count,
    previous_outputs,
    revision_count_per_checkpoint,
    checkpoint_snapshots,
    lists,                    \* the list objects built for `contributions`
    checkpoint_history,       \* CheckpointHandler.checkpoint_history
    track_calls,              \* library calls made so far (LibSpec)
    lib_result,               \* what the last library call returned or raised
    human_feedback_history,   \* state["human_feedback_history"] of DebateState
    llm_input,                \* what the stage that ran last sent to its LLM
    running,                  \* DebateRunner.running
    runs,                     \* the debates started in this Streamlit session
    session_lists,            \* the list objects st.session_state can hold
    session_state,            \* st.session_state
    runners,                  \* the DebateRunner objects, each with its thread
    ui,                       \* where the Streamlit script run is
    cache,                    \* ConceptClassifier._cache: its keys, oldest first
    classify_calls            \* the calls of classify, one thread each

vars == <<mission, graph, handler, max_cycles, min_cycles, node, prev, waiting, steps,
          contributions, current_consensus_score, cycle_count, final_plan,
          intervention_mode, current_checkpoint, paused_at, human_feedback,
          revision_count, previous_outputs, revision_count_per_checkpoint,
          checkpoint_snapshots, lists, checkpoint_history, track_calls,
          lib_result, human_feedback_history, llm_input, running, runs,
          session_lists, session_state, runners, ui, cache, classify_calls>>

config == <<mission, graph, handler, max_cycles, min_cycles, intervention_mode,
           human_feedback_history>>
hitl3 == <<revision_count, previous_outputs>>
hitl2 == <<revision_count_per_checkpoint, checkpoint_snapshots>>
lib == <<track_calls, lib_result>>
runner == <<running, runs>>
session == <<session_lists, session_state>>
threads == <<runners, ui, cache, classify_calls>>

None == <<>>
Last(s) == s[Len(s)]

\* ------------------------------------------------------------- routing

\* graph.py: thresholds are local literals, the settings are not read
should_continue_debate(score, cycle) ==
    IF cycle >= HardMaxCycles THEN "synthesize"
    ELSE IF score >= HardConsensusThreshold THEN "synthesize"
    ELSE "continue"

\* graph_hitl_v2.py (and archive/graph_hitl_v1.py)
should_continue(score, cycle, maxc, minc) ==
    IF cycle >= maxc THEN "checkpoint_pre_synthesis"
    ELSE IF score >= consensus_threshold
         THEN IF cycle >= minc THEN "checkpoint_pre_synthesis"
              ELSE "katalizator"
         ELSE "katalizator"

\* the routing of graph_hitl_v3.py without its revision-limit rule
should_continue_after_gubernator_nolimit(feedback, revisions, score, cycle, maxc) ==
    IF feedback # <<>> /\ Last(feedback).decision = "reject" THEN "syntezator"
    ELSE IF score >= consensus_threshold THEN "checkpoint_pre_synthesis"
    ELSE IF cycle >= maxc THEN "checkpoint_pre_synthesis"
    ELSE "katalizator"

\* graph_hitl_v3.py
should_continue_after_gubernator(feedback, revisions, score, cycle, maxc) ==
    IF feedback # <<>> /\ Last(feedback).decision = "reject" THEN "syntezator"
    ELSE IF revisions >= max_revisions_per_cycle THEN "checkpoint_pre_synthesis"
    ELSE IF score >= consensus_threshold THEN "checkpoint_pre_synthesis"
    ELSE IF cycle >= maxc THEN "checkpoint_pre_synthesis"
    ELSE "katalizator"

\* ------------------------------------------------------------- the graph
\* The node that runs after node n, on the state n left: the add_edge and
\* add_conditional_edges calls of each workflow.

\* graph.py create_hegemon_graph
NextNodeBase(n, score, cycle) ==
    CASE n = "katalizator" -> "sceptyk"
      [] n = "sceptyk" -> "gubernator"
      [] n = "gubernator" ->
            IF should_continue_debate(score, cycle) = "continue"
            THEN "increment_cycle" ELSE "syntezator"
      [] n = "increment_cycle" -> "katalizator"
      [] n = "syntezator" -> "END"

\* the v2 graph with an edge from sceptyk to checkpoint_post_evaluation
NextNodeV2_no_evaluation(n, score, cycle, maxc, minc) ==
    CASE n = "katalizator" -> "checkpoint_post_thesis"
      [] n = "checkpoint_post_thesis" -> "sceptyk"
      [] n = "sceptyk" -> "checkpoint_post_evaluation"
      [] n = "checkpoint_post_evaluation" ->
            IF should_continue(score, cycle, maxc, minc) = "katalizator"
            THEN "increment_cycle" ELSE "checkpoint_pre_synthesis"
      [] n = "increment_cycle" -> "katalizator"
      [] n = "checkpoint_pre_synthesis" -> "syntezator"
      [] n = "syntezator" -> "END"

\* graph_hitl_v2.py create_hegemon_graph_hitl_v2
NextNodeV2(n, score, cycle, maxc, minc) ==
    CASE n = "katalizator" -> "checkpoint_post_thesis"
      [] n = "checkpoint_post_thesis" -> "sceptyk"
      [] n = "sceptyk" -> "gubernator"
      [] n = "gubernator" -> "checkpoint_post_evaluation"
      [] n = "checkpoint_post_evaluation" ->
            IF should_continue(score, cycle, maxc, minc) = "katalizator"
            THEN "increment_cycle" ELSE "checkpoint_pre_synthesis"
      [] n = "increment_cycle" -> "katalizator"
      [] n = "checkpoint_pre_synthesis" -> "syntezator"
      [] n = "syntezator" -> "END"

\* graph_hitl_v3.py create_hegemon_graph_hitl_v3 and
\* debate_runner.py _run_debate: the "katalizator" route leads straight to
\* the katalizator node, there is no increment_cycle node
NextNodeV3(n, feedback, revisions, score, cycle, maxc) ==
    CASE n = "katalizator" -> "checkpoint_post_thesis"
      [] n = "checkpoint_post_thesis" -> "sceptyk"
      [] n = "sceptyk" -> "gubernator"
      [] n = "gubernator" -> "checkpoint_post_evaluation"
      [] n = "checkpoint_post_evaluation" ->
            should_continue_after_gubernator(feedback, revisions, score,
                                             cycle, maxc)
      [] n = "checkpoint_pre_synthesis" -> "syntezator"
      [] n = "syntezator" -> "END"

AgentContribution(agent, type, cycle, id) ==
    [agent_id |-> agent, type |-> type, cycle |-> cycle, content |-> id]

\* streamlit_app/config.py DEFAULT_SESSION_STATE: "feedback_history": [] is
\* one list object, the first of session_lists, and every other value is
\* immutable.  (debate_running and debate_runner are what start_debate
\* leaves; debate_runner is the number of the runner held, 0 for None.)
DEFAULT_FEEDBACK_HISTORY == 1

DEFAULT_SESSION_STATE(started) ==
    [debate_running |-> started, debate_complete |-> FALSE,
     awaiting_feedback |-> FALSE, current_checkpoint |-> "None",
     feedback_history |-> DEFAULT_FEEDBACK_HISTORY,
     debate_runner |-> IF started THEN 1 ELSE 0]

\* debate_runner.py DebateRunner.__init__ followed by start(): the queue is
\* empty, running is set and the thread is in _run_debate.  checkpoint
\* counts the checkpoints the thread has reached, last_decision is the
\* decision of the feedback it consumed last, cleanup_called records a call
\* of cleanup().
StartedRunner ==
    [running |-> TRUE, feedback_queue |-> <<>>, pc |-> "run",
     checkpoint |-> 0, last_decision |-> "none", cleanup_called |-> FALSE]

\* the script run is between two handlers
Idle == [pc |-> "idle"]

\* config/settings.py DebateConfig: the two Field constraints, ge and le,
\* are all that is validated; no validator compares the two fields
DebateConfig(maxc, minc) ==
    /\ maxc >= 1 /\ maxc <= 10
    /\ minc >= 1 /\ minc <= 3

\* the state a run starts from, but for the feedback history it is given
Fresh ==
    /\ mission \in Missions
    /\ graph \in Graphs
    /\ handler \in IF graph = "v3" THEN Handlers ELSE {"none"}
    /\ max_cycles \in 0..MaxCyclesCfg
    /\ min_cycles \in 0..MinCyclesCfg
    /\ DebateConfig(max_cycles, min_cycles)
    /\ intervention_mode \in IF graph = "base" THEN {"reviewer"}
                             ELSE InterventionMode
    /\ node = "katalizator"
    /\ prev = "START"
    /\ waiting = FALSE
    /\ steps = 0
    /\ contributions = <<>>
    /\ current_consensus_score = 0
    /\ cycle_count = 1
    /\ final_plan = "None"
    /\ current_checkpoint = None
    /\ paused_at = None
    /\ human_feedback = <<>>
    /\ revision_count = 0
    /\ previous_outputs = [a \in {} |-> 0]
    /\ revision_count_per_checkpoint = [c \in {} |-> 0]
    /\ checkpoint_snapshots = [c \in {} |-> 0]
    /\ lists = << <<>> >>
    /\ checkpoint_history = <<>>
    /\ track_calls = <<>>
    /\ lib_result = [fn |-> "none", args |-> <<>>, ok |-> TRUE,
                     value |-> None, error |-> None]
    /\ llm_input = [agent_id |-> "none", system |-> <<>>]
    /\ running = (handler = "streamlit")
    /\ runs = 1
    /\ session_lists = << <<>> >>
    /\ session_state = DEFAULT_SESSION_STATE(handler = "streamlit")
    /\ runners = IF handler = "streamlit" THEN <<StartedRunner>> ELSE <<>>
    /\ ui = Idle
    /\ cache = <<>>
    /\ classify_calls = <<>>

\* initial_state of graph_hitl_v2.py: "human_feedback_history": []
Init ==
    /\ Fresh
    /\ human_feedback_history = <<>>

\* ---------------------------------------------------------------- strings

Char(s, i) == SubSeq(s, i, i)

\* str.strip(): what lies between the first and the last character that
\* is not a space
strip(s) ==
    LET solid == {i \in 1..Len(s) : Char(s, i) # " "} IN
    IF solid = {} THEN ""
    ELSE SubSeq(s, CHOOSE i \in solid : \A j \in solid : i <= j,
                   CHOOSE i \in solid : \A j \in solid : i >= j)

UpperCase == "ABCDEFGHIJKLMNOPQRSTUVWXYZ"
LowerCase == "abcdefghijklmnopqrstuvwxyz"

\* c.lower() of one character
LowerChar(c) ==
    IF \E i \in 1..Len(UpperCase) : Char(UpperCase, i) = c
    THEN Char(LowerCase, CHOOSE i \in 1..Len(UpperCase) : Char(UpperCase, i) = c)
    ELSE c

\* c.upper() of one character
UpperChar(c) ==
    IF \E i \in 1..Len(LowerCase) : Char(LowerCase, i) = c
    THEN Char(UpperCase, CHOOSE i \in 1..Len(LowerCase) : Char(LowerCase, i) = c)
    ELSE c

\* the characters of s from position i on, in lower case
RECURSIVE LowerFrom(_, _)
LowerFrom(s, i) ==
    IF i > Len(s) THEN "" ELSE LowerChar(Char(s, i)) \o LowerFrom(s, i + 1)

\* str.lower()
lower(s) == CHOOSE lowered \in {LowerFrom(raw, 1) : raw \in {s}} : TRUE

\* pattern in s
Contains(s, pattern) ==
    \E i \in 1..(Len(s) - Len(pattern) + 1) :
        SubSeq(s, i, i + Len(pattern) - 1) = pattern

\* ------------------------------------------------- feedback in the prompts
\* A character outside ASCII is written "#", one for each code point.

MAX_FEEDBACK_CONTEXT_LENGTH == 2000
MAX_FEEDBACK_ITEMS_TO_SHOW == 3

Agents == {"Katalizator", "Sceptyk", "Gubernator", "Syntezator"}

\* agent_checkpoint_mapping (prompt_builder.py, agents_hitl.py) and
\* agent_checkpoint_prefix (feedback.py)
agent_checkpoint_prefix(agent_id) ==
    CASE agent_id = "Katalizator" -> "post_thesis"
      [] agent_id = "Sceptyk" -> "post_thesis"
      [] agent_id = "Gubernator" -> "post_evaluation"
      [] agent_id = "Syntezator" -> "pre_synthesis"

\* checkpoint.startswith(prefix) on the identifier "<type>_cycle_<n>",
\* written <<type, n>>: none of the three type names begins another
startswith(checkpoint, prefix) == checkpoint[1] = prefix

\* the list before the filter
all_feedback(history, agent_id) == history

\* [fb for fb in all_feedback if fb.checkpoint.startswith(prefix)]
relevant_feedback(history, agent_id) ==
    LET relevant(fb) ==
            startswith(fb.checkpoint, agent_checkpoint_prefix(agent_id))
    IN SelectSeq(history, relevant)

\* agents_hitl.py has_relevant_feedback
has_relevant_feedback(history, checkpoint_prefix) ==
    \E i \in 1..Len(history) :
        startswith(history[i].checkpoint, checkpoint_prefix)

\* s[-n:]
LastItems(s, n) == IF Len(s) > n THEN SubSeq(s, Len(s) - n + 1, Len(s)) ELSE s

\* prompt_builder.py: the feedback the block is rendered from
shown_feedback(history, agent_id, include_all_history) ==
    LET relevant == relevant_feedback(history, agent_id) IN
    IF ~include_all_history /\ Len(relevant) > MAX_FEEDBACK_ITEMS_TO_SHOW
    THEN LastItems(relevant, MAX_FEEDBACK_ITEMS_TO_SHOW)
    ELSE relevant

RECURSIVE Repeat(_, _)
\* c * n
Repeat(c, n) ==
    IF n = 0 THEN ""
    ELSE (CHOOSE twice \in {half \o half : half \in {Repeat(c, n \div 2)}} :
                TRUE)
         \o (IF n % 2 = 1 THEN c ELSE "")

RECURSIVE JoinFrom(_, _, _)
JoinFrom(sep, parts, i) ==
    IF i > Len(parts) THEN ""
    ELSE IF i = Len(parts) THEN parts[i]
    ELSE parts[i] \o sep \o JoinFrom(sep, parts, i + 1)

\* sep.join(parts)
Join(sep, parts) == JoinFrom(sep, parts, 1)

RECURSIVE UpperFrom(_, _)
UpperFrom(s, i) ==
    IF i > Len(s) THEN "" ELSE UpperChar(Char(s, i)) \o UpperFrom(s, i + 1)

\* str.upper()
upper(s) == UpperFrom(s, 1)

RECURSIVE Bullets(_, _)
\* lines.append(f"# {item}") for each item
Bullets(items, i) ==
    IF i > Len(items) THEN <<>>
    ELSE <<"# " \o items[i]>> \o Bullets(items, i + 1)

\* f"# {key}: {value}" for each pair of override_data
OverrideLines(data) ==
    [i \in 1..Len(data) |-> "# " \o data[i][1] \o ": " \o data[i][2]]

\* prompt_builder.py: the lines of one feedback, the i-th of the shown ones
FeedbackLines(fb, i, several) ==
    (IF several
     THEN <<"### Feedback #" \o ToString(i) \o " " \o Repeat("#", 45), "">>
     ELSE <<>>)
    \o <<"# **Decision: " \o upper(fb.decision) \o "**", "">>
    \o (IF fb.guidance # ""
        THEN <<"# **Guidance:**", "\"" \o fb.guidance \o "\"", "">>
        ELSE <<>>)
    \o (IF fb.priority_claims # <<>>
        THEN <<"# **Priority Items to Emphasize:**">>
             \o Bullets(fb.priority_claims, 1) \o <<"">>
        ELSE <<>>)
    \o (IF fb.flagged_concerns # <<>>
        THEN <<"## **Concerns to Address:**">>
             \o Bullets(fb.flagged_concerns, 1) \o <<"">>
        ELSE <<>>)
    \o (IF fb.override_data # <<>>
        THEN <<"# **Special Instructions:**">>
             \o OverrideLines(fb.override_data) \o <<"">>
        ELSE <<>>)

RECURSIVE AllFeedbackLines(_, _)
AllFeedbackLines(shown, i) ==
    IF i > Len(shown) THEN <<>>
    ELSE FeedbackLines(shown[i], i, Len(shown) > 1)
         \o AllFeedbackLines(shown, i + 1)

\* prompt_builder.py: "\n".join(lines), before the length check
feedback_context_lines(shown) ==
    LET revision_count_shown == Len(shown) IN
    <<Repeat("#", 64),
      "# HUMAN FEEDBACK (" \o ToString(revision_count_shown) \o " revision"
          \o (IF revision_count_shown > 1 THEN "s" ELSE "")
          \o " requested)" \o Repeat(" ", 30) \o "#",
      Repeat("#", 64),
      "",
      "The human reviewed your previous output and requested changes:",
      "">>
    \o AllFeedbackLines(shown, 1)
    \o <<"**ACTION REQUIRED:** Please incorporate this feedback in your revised output.",
         "">>

truncation_marker == "\n\n[...feedback truncated for length...]"

\* the length check left out
no_truncation(context) == context

\* prompt_builder.py: context[:MAX_FEEDBACK_CONTEXT_LENGTH] and the marker
truncate(context) ==
    IF Len(context) > MAX_FEEDBACK_CONTEXT_LENGTH
    THEN SubSeq(context, 1, MAX_FEEDBACK_CONTEXT_LENGTH) \o truncation_marker
    ELSE context

\* prompt_builder.py build_feedback_context_for_agent, on
\* state["human_feedback_history"]
build_feedback_context_for_agent(history, agent_id, include_all_history) ==
    IF history = <<>> THEN ""
    ELSE LET shown == shown_feedback(history, agent_id, include_all_history) IN
         IF shown = <<>> THEN ""
         ELSE CHOOSE context \in
                  {truncate(joined) :
                       joined \in {Join("\n", feedback_context_lines(shown))}} :
                  TRUE

\* str(dict) of override_data
DictRepr(data) ==
    "{" \o Join(", ", [i \in 1..Len(data) |->
                          "'" \o data[i][1] \o "': '" \o data[i][2] \o "'"])
        \o "}"

\* feedback.py build_feedback_context_for_agent (Phase 2.1), on
\* state["human_feedback_history"]: the latest relevant feedback only
build_feedback_context_for_agent_2_1(history, agent_id) ==
    LET relevant == relevant_feedback(history, agent_id) IN
    IF relevant = <<>> THEN ""
    ELSE LET latest == Last(relevant) IN
         Join("\n",
              <<"=== HUMAN FEEDBACK ===", "Decision: " \o latest.decision>>
              \o (IF latest.guidance # ""
                  THEN <<"Guidance: " \o latest.guidance>> ELSE <<>>)
              \o (IF latest.priority_claims # <<>>
                  THEN <<"Priority Claims: ["
                         \o Join(", ", latest.priority_claims) \o "]">>
                  ELSE <<>>)
              \o (IF latest.flagged_concerns # <<>>
                  THEN <<"Flagged Concerns: ["
                         \o Join(", ", latest.flagged_concerns) \o "]">>
                  ELSE <<>>)
              \o (IF latest.override_data # <<>>
                  THEN <<"Override Data: " \o DictRepr(latest.override_data)>>
                  ELSE <<>>)
              \o <<"=== END FEEDBACK ===">>)

\* the system prompt an agent is configured with
get_system_prompt(agent_id) == "system prompt of " \o agent_id

\* prompt_builder.py build_agent_prompt_with_feedback: the parts of the
\* enhanced system prompt, which is their "\n\n".join
build_agent_prompt_with_feedback(history, agent_id, base_system_prompt) ==
    LET feedback_context ==
            build_feedback_context_for_agent(history, agent_id, FALSE) IN
    IF feedback_context # "" THEN <<base_system_prompt, feedback_context>>
    ELSE <<base_system_prompt>>

\* agents_hitl.py *_node_hitl: the system message sent to the LLM
SystemMessageHitl(history, agent_id) ==
    IF has_relevant_feedback(history, agent_checkpoint_prefix(agent_id))
    THEN build_agent_prompt_with_feedback(history, agent_id,
                                          get_system_prompt(agent_id))
    ELSE <<get_system_prompt(agent_id)>>

\* agents.py *_node: the system message is the literal prompt of the agent
SystemMessage(agent_id) == <<get_system_prompt(agent_id)>>

\* messages = [SystemMessage(...), HumanMessage(...)] of the stage that
\* runs: base and v3 run agents.py, v2 runs agents_hitl.py
Invoke(agent_id) ==
    llm_input' = [agent_id |-> agent_id,
                  system |-> IF graph = "v2"
                             THEN SystemMessageHitl(human_feedback_history,
                                                    agent_id)
                             ELSE SystemMessage(agent_id)]

\* ------------------------------------------------------------- stages

Ready(n) == node = n /\ ~waiting /\ steps < MaxSteps

\* the edge leaving node n, on the merged state (feedback log, revision
\* count, score, cycle) that n left
NextNode(n, feedback, revisions, score, cycle) ==
    CASE graph = "base" -> NextNodeBase(n, score, cycle)
      [] graph = "v2" -> NextNodeV2(n, score, cycle, max_cycles, min_cycles)
      [] graph = "v3" -> NextNodeV3(n, feedback, revisions, score, cycle,
                                    max_cycles)

\* node n returns and the graph moves to `next`
Done(n, next) ==
    /\ prev' = n
    /\ node' = next
    /\ steps' = steps + 1
    /\ waiting' = FALSE

\* The reducer of `contributions` written as an in-place extension of the
\* current list object
list_extend(heap, new) == [heap EXCEPT ![Len(heap)] = @ \o new]

\* The reducer of `contributions` with its operands exchanged: new + old
add_in_front(heap, new) == Append(heap, new \o Last(heap))

\* The reducer of `contributions`: operator.add(old, new) is old + new, a
\* new list object; the old one is left as it was.
operator_add(heap, new) == Append(heap, Last(heap) \o new)

\* a stage that returns {"contributions": [c, c]}
ContributeTwice(c) ==
    /\ lists' = operator_add(lists, <<c, c>>)
    /\ contributions' = Last(lists')

\* a stage returns {"contributions": [c]} and the graph merges it
Contribute(c) ==
    /\ lists' = operator_add(lists, <<c>>)
    /\ contributions' = Last(lists')

\* v2 runs the agents of agents_hitl.py, whose thesis is tagged FinalPlan
ThesisTag(g) == IF g = "v2" THEN "FinalPlan" ELSE "Thesis"

katalizator_node ==
    /\ Ready("katalizator")
    /\ Invoke("Katalizator")
    /\ Contribute(
           AgentContribution("Katalizator", ThesisTag(graph), cycle_count,
                             Len(contributions) + 1))
    /\ Done("katalizator",
            NextNode("katalizator", human_feedback, revision_count,
                     current_consensus_score, cycle_count))
    /\ UNCHANGED <<threads, config, current_consensus_score, cycle_count, final_plan,
                   current_checkpoint, paused_at, human_feedback, hitl3, hitl2,
                   checkpoint_history, lib, runner, session>>

sceptyk_node ==
    /\ Ready("sceptyk")
    /\ Invoke("Sceptyk")
    /\ Contribute(
           AgentContribution("Sceptyk", "Antithesis", cycle_count,
                             Len(contributions) + 1))
    /\ Done("sceptyk",
            NextNode("sceptyk", human_feedback, revision_count,
                     current_consensus_score, cycle_count))
    /\ UNCHANGED <<threads, config, current_consensus_score, cycle_count, final_plan,
                   current_checkpoint, paused_at, human_feedback, hitl3, hitl2,
                   checkpoint_history, lib, runner, session>>

gubernator_node ==
    /\ Ready("gubernator")
    /\ Invoke("Gubernator")
    /\ \E score \in Scores :
         /\ current_consensus_score' = score
         /\ Contribute(
                AgentContribution("Gubernator", "Evaluation", cycle_count,
                                  Len(contributions) + 1))
         /\ Done("gubernator",
                 NextNode("gubernator", human_feedback, revision_count,
                          score, cycle_count))
    /\ UNCHANGED <<threads, config, cycle_count, final_plan, current_checkpoint,
                   paused_at, human_feedback, hitl3, hitl2,
                   checkpoint_history, lib, runner, session>>

syntezator_node ==
    /\ Ready("syntezator")
    /\ Invoke("Syntezator")
    /\ final_plan' = "FinalPlan"
    /\ Contribute(
           AgentContribution("Syntezator", "FinalPlan", cycle_count,
                             Len(contributions) + 1))
    /\ Done("syntezator",
            NextNode("syntezator", human_feedback, revision_count,
                     current_consensus_score, cycle_count))
    /\ UNCHANGED <<threads, config, current_consensus_score, cycle_count,
                   current_checkpoint, paused_at, human_feedback, hitl3, hitl2,
                   checkpoint_history, lib, runner, session_lists>>
    /\ session_state' = IF handler = "streamlit"
                        THEN [session_state EXCEPT !.debate_complete = TRUE,
                                                   !.debate_running = FALSE,
                                                   !.awaiting_feedback = FALSE]
                        ELSE session_state

increment_cycle ==
    /\ Ready("increment_cycle")
    /\ cycle_count' = cycle_count + 1
    /\ Done("increment_cycle",
            NextNode("increment_cycle", human_feedback, revision_count,
                     current_consensus_score, cycle_count + 1))
    /\ UNCHANGED <<threads, llm_input, config, contributions, current_consensus_score, final_plan,
                   current_checkpoint, paused_at, human_feedback, hitl3, hitl2,
                   lists, checkpoint_history, lib, runner, session>>

\* ------------------------------------------------------------- checkpoints

CheckpointNodes == {"checkpoint_post_thesis", "checkpoint_post_evaluation",
                    "checkpoint_pre_synthesis"}

TypeOf(n) ==
    CASE n = "checkpoint_post_thesis" -> "post_thesis"
      [] n = "checkpoint_post_evaluation" -> "post_evaluation"
      [] n = "checkpoint_pre_synthesis" -> "pre_synthesis"

\* CHECKPOINT_NAMES[checkpoint_type].format(cycle)
CheckpointId(type, cycle) == <<type, cycle>>

\* hitl/checkpoints.py: every checkpoint is skipped in observer mode
SkipsV2(mode, type) == mode = "observer"

\* a checkpoint node that skips nothing
SkipsNever(mode, type) == FALSE

\* graph_hitl_v3.py: observer mode skips all but the pre-synthesis checkpoint
SkipsV3(mode, type) == mode = "observer" /\ type # "pre_synthesis"

Skips(g, mode, type) == IF g = "v2" THEN SkipsV2(mode, type)
                        ELSE SkipsV3(mode, type)

\* return {}: no state change, the graph moves on
checkpoint_skip ==
    \E n \in CheckpointNodes :
      /\ Ready(n)
      /\ Skips(graph, intervention_mode, TypeOf(n))
      /\ Done(n, NextNode(n, human_feedback, revision_count,
                          current_consensus_score, cycle_count))
      /\ UNCHANGED <<threads, llm_input, config, contributions, current_consensus_score,
                     cycle_count, final_plan, current_checkpoint, paused_at,
                     human_feedback, hitl3, hitl2,
                   lists, checkpoint_history, lib, runner, session>>

\* A snapshot whose `contributions` key leads to the empty list the run
\* started with
SnapshotWithoutContributions ==
    [mission |-> mission,
     contributions |-> 1,
     current_consensus_score |-> current_consensus_score,
     cycle_count |-> cycle_count,
     final_plan |-> final_plan,
     intervention_mode |-> intervention_mode,
     current_checkpoint |-> current_checkpoint,
     human_feedback_history |-> human_feedback,
     paused_at |-> paused_at,
     revision_count_per_checkpoint |-> revision_count_per_checkpoint,
     checkpoint_snapshots |-> checkpoint_snapshots]

\* snapshot = dict(state): a shallow copy, every key leads to the object the
\* state's key leads to.  `contributions` is the one list a later stage
\* extends, so the snapshot holds its address in `lists`; the other values
\* are never written in place and are held by value.
Snapshot ==
    [mission |-> mission,
     contributions |-> Len(lists),
     current_consensus_score |-> current_consensus_score,
     cycle_count |-> cycle_count,
     final_plan |-> final_plan,
     intervention_mode |-> intervention_mode,
     current_checkpoint |-> current_checkpoint,
     human_feedback_history |-> human_feedback,
     paused_at |-> paused_at,
     revision_count_per_checkpoint |-> revision_count_per_checkpoint,
     checkpoint_snapshots |-> checkpoint_snapshots]

\* reading a snapshot back: the values its keys lead to now
Restore(snapshot, heap) == [snapshot EXCEPT !.contributions = heap[@]]

\* hitl/checkpoints.py checkpoint_node: the node returns its updates and the
\* graph, compiled without interrupts, runs the next node.  The two dict
\* fields have no reducer, so the returned one-entry map replaces the old one.
checkpoint_node_v2 ==
    \E n \in CheckpointNodes :
      /\ graph = "v2"
      /\ Ready(n)
      /\ ~Skips(graph, intervention_mode, TypeOf(n))
      /\ LET checkpoint_id == CheckpointId(TypeOf(n), cycle_count) IN
           /\ current_checkpoint' = checkpoint_id
           /\ paused_at' = <<steps>>
           /\ checkpoint_snapshots' = (checkpoint_id :> Snapshot)
      /\ Done(n, NextNode(n, human_feedback, revision_count,
                          current_consensus_score, cycle_count))
      /\ UNCHANGED <<threads, llm_input, config, contributions, current_consensus_score,
                     cycle_count, final_plan, human_feedback, hitl3,
                     revision_count_per_checkpoint,
                   lists, checkpoint_history, lib, runner, session>>

\* graph_hitl_v3.py checkpoint_node up to handler.handle_checkpoint(...),
\* which blocks until the UI returns a feedback
checkpoint_node_wait ==
    \E n \in CheckpointNodes :
      /\ graph = "v3"
      /\ Ready(n)
      /\ ~Skips(graph, intervention_mode, TypeOf(n))
      /\ waiting' = TRUE
      /\ UNCHANGED <<threads, llm_input, config, node, prev, steps, contributions,
                     current_consensus_score, cycle_count, final_plan,
                     current_checkpoint, paused_at, human_feedback, hitl3,
                     hitl2,
                   lists, checkpoint_history, lib, runner, session_lists>>
      /\ session_state' = IF handler = "streamlit"
                          THEN [session_state EXCEPT
                                   !.current_checkpoint = TypeOf(n),
                                   !.awaiting_feedback = TRUE,
                                   !.debate_running = FALSE]
                          ELSE session_state

\* --------------------------------------------------------- human feedback

\* (the backquote, the sixth character, is in no guidance of Guidances)
dangerous_chars == {"<", ">", "&", ";", "$"}

\* the characters of s from position i on that are not in chars
RECURSIVE RemoveFrom(_, _, _)
RemoveFrom(s, i, chars) ==
    IF i > Len(s) THEN ""
    ELSE (IF Char(s, i) \in chars THEN "" ELSE Char(s, i))
         \o RemoveFrom(s, i + 1, chars)

\* for char in dangerous_chars: result = result.replace(char, "")
RemoveChars(s, chars) == RemoveFrom(s, 1, chars)

\* hitl/models.py HumanFeedback.sanitize_guidance: result.strip() of the
\* result the loop leaves (each of the two strings is computed once)
sanitize_guidance(v) ==
    CHOOSE stripped \in {strip(result) :
                            result \in {RemoveChars(raw, dangerous_chars) :
                                           raw \in {v}}} : TRUE

\* hitl/models.py HumanFeedback(...): the one validator of `guidance` removes
\* characters and never raises
HumanFeedback(checkpoint, decision, guidance) ==
    [checkpoint |-> checkpoint, decision |-> decision,
     guidance |-> sanitize_guidance(guidance), timestamp |-> steps]

\* state.model_dump(mode="json"): every field of DebateStateHITL by value
model_dump ==
    [mission |-> mission,
     contributions |-> contributions,
     cycle_count |-> cycle_count,
     current_consensus_score |-> current_consensus_score,
     final_plan |-> final_plan,
     current_checkpoint |-> current_checkpoint,
     human_feedback |-> human_feedback,
     paused_at |-> paused_at,
     intervention_mode |-> intervention_mode,
     revision_count |-> revision_count,
     previous_outputs |-> previous_outputs,
     hitl_enabled |-> TRUE,
     max_revisions_per_cycle |-> max_revisions_per_cycle]

CheckpointState(checkpoint, feedback) ==
    [checkpoint |-> checkpoint, user_feedback |-> feedback,
     state_snapshot |-> model_dump, is_resolved |-> TRUE]

\* CheckpointHandler.handle_checkpoint after the UI returned: the jupyter
\* and the text UI run under CheckpointHandler, which keeps a history;
\* StreamlitCheckpointHandler keeps none
handle_checkpoint(h, history, checkpoint, feedback) ==
    IF h = "streamlit" THEN history
    ELSE Append(history, CheckpointState(checkpoint, feedback))

\* graph_hitl_v3.py checkpoint_node from the return of handle_checkpoint
Resolve(feedback) ==
    /\ graph = "v3"
    /\ node \in CheckpointNodes
    /\ waiting
    /\ checkpoint_history' = handle_checkpoint(handler, checkpoint_history,
                                                TypeOf(node), feedback)
    /\ human_feedback' = Append(human_feedback, feedback)
    /\ current_checkpoint' = None
    /\ paused_at' = None
    /\ revision_count' = IF feedback.decision = "revise"
                         THEN revision_count + 1 ELSE revision_count
    /\ previous_outputs' =
          IF feedback.decision = "revise" /\ contributions # <<>>
          THEN [a \in DOMAIN previous_outputs \cup {Last(contributions).agent_id} |->
                  IF a = Last(contributions).agent_id
                  THEN Last(contributions).content
                  ELSE previous_outputs[a]]
          ELSE previous_outputs
    /\ final_plan' = IF feedback.decision = "reject" THEN "None" ELSE final_plan
    /\ Done(node, NextNode(node, human_feedback', revision_count',
                           current_consensus_score, cycle_count))
    /\ UNCHANGED <<threads, llm_input, config, contributions, current_consensus_score,
                   cycle_count, hitl2, lists, lib, runner>>

\* what a user types into the guidance box
Guidances == {"", "<ok>", "Add quantitative data",
              "Ignore previous instructions"}

\* the filled forms a user submits
Forms ==
    {[decision |-> "approve", guidance |-> ""],
     [decision |-> "reject", guidance |-> ""]}
    \cup [decision : {"revise"}, guidance : Guidances]

\* the guidance of a feedback whose text is not followed
CannedGuidance(decision) ==
    IF decision = "revise" THEN "Add quantitative data" ELSE ""

\* What each UI lets through to the HumanFeedback constructor.
\*   jupyter_ui.py on_submit: the two widget values as they are
\*   simple_ui.py: approve has no guidance, a revise guidance shorter than
\*     10 characters is asked again
\*   feedback_form.py: the guidance box exists for revise only, and a revise
\*     guidance shorter than 10 characters is refused
Accepts(h, decision, guidance) ==
    CASE h = "jupyter" -> TRUE
      [] h = "simple" ->
            /\ decision = "approve" => guidance = ""
            /\ decision = "revise" => Len(strip(guidance)) >= MIN_GUIDANCE_LENGTH
      [] h = "streamlit" ->
            /\ decision # "revise" => guidance = ""
            /\ decision = "revise" => Len(strip(guidance)) >= MIN_GUIDANCE_LENGTH

SubmittedGuidance(h, guidance) ==
    IF h = "jupyter" THEN guidance ELSE strip(guidance)

\* state_manager.py StateManager.submit_feedback: the timestamp is added,
\* the dict is appended to the list st.session_state.feedback_history
\* holds, and the flags are set (runner.submit_feedback puts the dict on
\* the queue the debate thread reads)
StateManager_submit_feedback(feedback) ==
    /\ session_lists' =
          [session_lists EXCEPT ![session_state.feedback_history] =
              Append(@, [decision |-> feedback.decision,
                         guidance |-> feedback.guidance,
                         timestamp |-> steps])]
    /\ session_state' = [session_state EXCEPT !.awaiting_feedback = FALSE,
                                               !.current_checkpoint = "None",
                                               !.debate_running = TRUE]

\* the user submits the form (jupyter on_submit, simple input(), streamlit
\* feedback_queue.put picked up by feedback_queue.get)
submit_feedback ==
    \E form \in Forms :
      /\ waiting
      /\ Len(human_feedback) >= MaxTyped =>
            form.guidance = CannedGuidance(form.decision)
      /\ Accepts(handler, form.decision, form.guidance)
      /\ Resolve(HumanFeedback(TypeOf(node), form.decision,
                               SubmittedGuidance(handler, form.guidance)))
      /\ IF handler = "streamlit"
         THEN StateManager_submit_feedback(
                  [decision |-> form.decision,
                   guidance |-> SubmittedGuidance(handler, form.guidance)])
         ELSE UNCHANGED session
      /\ UNCHANGED threads

\* jupyter_ui.py _collect_feedback: the polling loop gives up after
\* timeout_seconds and the feedback defaults to approve.  simple_ui.py and
\* debate_runner.py block in input() and queue.get() with no timeout.
HasTimeout(h) == h = "jupyter"

feedback_timeout ==
    /\ HasTimeout(handler)
    /\ Resolve(HumanFeedback(TypeOf(node), "approve",
                             "[Auto-approved due to timeout]"))
    /\ UNCHANGED <<session, threads>>

Controller ==
    \/ katalizator_node
    \/ sceptyk_node
    \/ gubernator_node
    \/ syntezator_node
    \/ increment_cycle
    \/ checkpoint_skip
    \/ checkpoint_node_v2
    \/ checkpoint_node_wait

Next ==
    \/ Controller
    \/ submit_feedback
    \/ feedback_timeout

Spec == Init /\ [][Next]_vars

\* The graph run is a single thread that LangGraph drives to END, and the
\* jupyter polling loop always reaches its timeout; nothing obliges the
\* human to answer.
FairSpec == Spec /\ WF_vars(Controller) /\ WF_vars(feedback_timeout)

\* ------------------------------------------------- the feedback library
\* hitl/feedback.py and hitl/schemas.py: functions and validators that no
\* workflow calls.  LibSpec calls them on the state of a fresh v2 run, in
\* any order, and merges what they return as the graph would.

Raised(fn, args, error) ==
    [fn |-> fn, args |-> args, ok |-> FALSE, value |-> None, error |-> error]

Returned(fn, args, value) ==
    [fn |-> fn, args |-> args, ok |-> TRUE, value |-> value, error |-> None]

\* hitl/exceptions.py MaxRevisionsExceededError(checkpoint, current_count,
\* max_allowed)
MaxRevisionsExceededError(checkpoint, current_count, max_allowed) ==
    [type |-> "MaxRevisionsExceededError", checkpoint |-> checkpoint,
     current_count |-> current_count, max_allowed |-> max_allowed]

\* current_counts.get(checkpoint, 0)
Get(counts, checkpoint) ==
    IF checkpoint \in DOMAIN counts THEN counts[checkpoint] ELSE 0

\* track_revision with the limit test left out
track_revision_unchecked(counts, checkpoint) ==
    Returned("track_revision", <<checkpoint>>,
             (checkpoint :> Get(counts, checkpoint) + 1))

\* hitl/feedback.py track_revision(state, checkpoint), on
\* state["revision_count_per_checkpoint"]
track_revision(counts, checkpoint) ==
    LET current_count == Get(counts, checkpoint) IN
    IF current_count >= MAX_REVISIONS_PER_CHECKPOINT
    THEN Raised("track_revision", <<checkpoint>>,
                MaxRevisionsExceededError(checkpoint, current_count,
                                          MAX_REVISIONS_PER_CHECKPOINT))
    ELSE Returned("track_revision", <<checkpoint>>,
                  (checkpoint :> current_count + 1))

dangerous_patterns == {"ignore previous instructions", "disregard all prior",
                       "system:", "override all", "jailbreak"}

ValueError(message) == [type |-> "ValueError", message |-> message]

\* hitl/schemas.py HumanFeedback.validate_guidance_for_revision
validate_guidance_for_revision(v, decision) ==
    IF decision = "revise" /\ Len(strip(v)) < MIN_GUIDANCE_LENGTH
    THEN [ok |-> FALSE,
          error |-> ValueError("Guidance required for revision (min 10 characters)")]
    ELSE IF \E v_lower \in {lower(v)} :
               \E pattern \in dangerous_patterns : Contains(v_lower, pattern)
    THEN [ok |-> FALSE,
          error |-> ValueError("Guidance contains potentially dangerous patterns")]
    ELSE IF Len(v) > MAX_GUIDANCE_LENGTH
    THEN [ok |-> FALSE, error |-> ValueError("Guidance too long")]
    ELSE [ok |-> TRUE, value |-> v]

\* the two classes named HumanFeedback
FeedbackClasses == {"hitl.schemas", "hitl.models"}

\* HumanFeedback(checkpoint=..., decision=..., guidance=...) of either class
Construct(class, checkpoint, decision, guidance) ==
    LET args == <<class, checkpoint, decision, guidance>> IN
    IF class = "hitl.models"
    THEN Returned("HumanFeedback", args,
                  HumanFeedback(checkpoint, decision, guidance))
    ELSE LET v == validate_guidance_for_revision(guidance, decision) IN
         IF v.ok
         THEN Returned("HumanFeedback", args,
                       [checkpoint |-> checkpoint, decision |-> decision,
                        guidance |-> v.value, timestamp |-> steps])
         ELSE Raised("HumanFeedback", args, v.error)

\* the guidances the constructors are called with
LibGuidances == Guidances \cup {"ok"}

\* the checkpoints the library is called for
LibCheckpoints == {CheckpointId("post_thesis", 1),
                   CheckpointId("post_evaluation", 1)}

LibInit ==
    /\ Init
    /\ graph = "v2"
    /\ intervention_mode = "reviewer"
    /\ max_cycles = 1
    /\ min_cycles = 1

\* updates = track_revision(state, checkpoint), then the updates are merged:
\* revision_count_per_checkpoint has no reducer, the returned map takes the
\* place of the old one.  A raised error leaves the state as it was.
track ==
    \E checkpoint \in LibCheckpoints :
      /\ Len(track_calls) < MaxTrackCalls
      /\ track_calls' = Append(track_calls, checkpoint)
      /\ lib_result' = track_revision(revision_count_per_checkpoint, checkpoint)
      /\ revision_count_per_checkpoint' =
            IF lib_result'.ok THEN lib_result'.value
            ELSE revision_count_per_checkpoint
      /\ UNCHANGED <<threads, runner, session, llm_input, config, node, prev, waiting, steps, contributions,
                     current_consensus_score, cycle_count, final_plan,
                     current_checkpoint, paused_at, human_feedback, hitl3,
                     checkpoint_snapshots, lists, checkpoint_history>>

\* The value a caller passes as `checkpoint` for the checkpoint of a type
\* reached in a cycle: hitl/schemas.py takes the identifier string,
\* hitl/models.py takes a CheckpointType
CheckpointArgument(class, type, cycle) ==
    IF class = "hitl.schemas" THEN CheckpointId(type, cycle) ELSE type

\* a library result, with the checkpoint the call was made for
Answering(result, type, cycle) ==
    [field \in DOMAIN result \cup {"answers"} |->
        IF field = "answers" THEN <<type, cycle>> ELSE result[field]]

\* a feedback is constructed for the checkpoint of a type reached in a cycle
construct ==
    \E class \in FeedbackClasses, type \in {"post_thesis"},
       cycle \in 1..MaxCyclesCfg,
       decision \in FeedbackDecision, guidance \in LibGuidances :
      /\ lib_result' =
            Answering(Construct(class,
                                CheckpointArgument(class, type, cycle),
                                decision, guidance),
                      type, cycle)
      /\ UNCHANGED <<threads, runner, session, llm_input, config, node, prev, waiting, steps, contributions,
                     current_consensus_score, cycle_count, final_plan,
                     current_checkpoint, paused_at, human_feedback, hitl3,
                     hitl2, lists, checkpoint_history, track_calls>>

LibNext ==
    \/ track
    \/ construct

LibSpec == LibInit /\ [][LibNext]_vars

\* ------------------------------------------------- the prompt builders
\* hitl/prompt_builder.py and hitl/feedback.py: the two functions named
\* build_feedback_context_for_agent, called on the state of a v2 run whose
\* feedback history the caller supplied.

\* a guidance close to the 2000 characters hitl/schemas.py allows
LongGuidance == Repeat("X", LongLen)

\* HumanFeedback objects of hitl/schemas.py as a history holds them
FeedbackEntries ==
    {[checkpoint |-> CheckpointId("post_thesis", 1), decision |-> "revise",
      guidance |-> "Improve thesis", priority_claims |-> <<>>,
      flagged_concerns |-> <<>>, override_data |-> <<>>],
     [checkpoint |-> CheckpointId("post_evaluation", 1), decision |-> "approve",
      guidance |-> "Good evaluation", priority_claims |-> <<>>,
      flagged_concerns |-> <<>>, override_data |-> <<>>],
     [checkpoint |-> CheckpointId("post_thesis", 2), decision |-> "revise",
      guidance |-> LongGuidance, priority_claims |-> <<"Cost analysis">>,
      flagged_concerns |-> <<"Budget risk">>, override_data |-> <<>>],
     [checkpoint |-> CheckpointId("pre_synthesis", 2), decision |-> "override",
      guidance |-> "", priority_claims |-> <<>>, flagged_concerns |-> <<>>,
      override_data |-> << <<"style", "brief">> >>]}

Histories == UNION {[1..n -> FeedbackEntries] : n \in 0..MaxHistory}

Builders == {"prompt_builder", "feedback"}

\* the feedback a builder formats
Shown(builder, history, agent_id, include_all_history) ==
    IF builder = "prompt_builder"
    THEN shown_feedback(history, agent_id, include_all_history)
    ELSE LastItems(relevant_feedback(history, agent_id), 1)

BuildContext(builder, history, agent_id, include_all_history) ==
    Returned("build_feedback_context_for_agent",
             <<builder, agent_id, include_all_history>>,
             [context |->
                 IF builder = "prompt_builder"
                 THEN build_feedback_context_for_agent(history, agent_id,
                                                       include_all_history)
                 ELSE build_feedback_context_for_agent_2_1(history, agent_id),
              shown |-> Shown(builder, history, agent_id,
                              include_all_history)])

PromptInit ==
    /\ Fresh
    /\ graph = "v2"
    /\ intervention_mode = "reviewer"
    /\ max_cycles = 1
    /\ min_cycles = 1
    /\ human_feedback_history \in Histories

\* context = build_feedback_context_for_agent(state, agent_id): feedback.py
\* takes no third argument
build_context ==
    \E builder \in Builders, agent_id \in Agents,
       include_all_history \in BOOLEAN :
      /\ builder = "feedback" => ~include_all_history
      /\ lib_result' = BuildContext(builder, human_feedback_history, agent_id,
                                    include_all_history)
      /\ UNCHANGED <<threads, runner, session, llm_input, config, node, prev, waiting, steps,
                     contributions, current_consensus_score, cycle_count,
                     final_plan, current_checkpoint, paused_at, human_feedback,
                     hitl3, hitl2, lists, checkpoint_history, track_calls>>

PromptNext == build_context

PromptSpec == PromptInit /\ [][PromptNext]_vars

\* ------------------------------------------------- analysis of the feedback
\* hitl/contradiction_detector.py and hitl/effectiveness.py: functions
\* over feedback objects and agent outputs that no workflow node calls.
\* AnalysisSpec calls them on the inputs below.

\* str.split() from position i on, word being the word begun
RECURSIVE SplitFrom(_, _, _)
SplitFrom(s, i, word) ==
    IF i > Len(s) THEN (IF word = "" THEN <<>> ELSE <<word>>)
    ELSE IF Char(s, i) = " "
         THEN (IF word = "" THEN <<>> ELSE <<word>>) \o SplitFrom(s, i + 1, "")
         ELSE SplitFrom(s, i + 1, word \o Char(s, i))

\* str.split()
split(s) == SplitFrom(s, 1, "")

RECURSIVE FlattenFrom(_, _)
FlattenFrom(seqs, i) ==
    IF i > Len(seqs) THEN <<>> ELSE seqs[i] \o FlattenFrom(seqs, i + 1)

\* the lists of a list of lists, one after the other
Flatten(seqs) == FlattenFrom(seqs, 1)

\* for i in range(n): for j in range(i + 1, n), as positions from 1
IndexPairs(n) ==
    Flatten([i \in 1..n |-> [d \in 1..(n - i) |-> <<i, i + d>>]])

contradiction_pairs ==
    << << <<"shorter", "brief", "concise", "summarize", "reduce", "minimize">>,
          <<"longer", "detail", "elaborate", "expand", "more",
            "comprehensive">> >>,
       << <<"simple", "simplify", "basic", "elementary">>,
          <<"complex", "detailed", "advanced", "comprehensive",
            "sophisticated">> >>,
       << <<"remove", "delete", "omit", "exclude", "eliminate">>,
          <<"add", "include", "incorporate", "append", "insert">> >>,
       << <<"general", "broad", "overview", "high-level">>,
          <<"specific", "precise", "detailed", "particular", "granular">> >>,
       << <<"conservative", "cautious", "careful", "moderate">>,
          <<"aggressive", "bold", "ambitious", "radical">> >>,
       << <<"fast", "quick", "rapid", "immediate">>,
          <<"slow", "gradual", "careful", "thorough">> >> >>

\* any(word in guidance for word in group)
found(guidance, group) ==
    \E w \in 1..Len(group) : Contains(guidance, group[w])

\* a detector that looks in one direction only
no_opposite_direction(guidance1, guidance2, group_a, group_b) == FALSE

\* found_b_in_1 and found_a_in_2
opposite_direction(guidance1, guidance2, group_a, group_b) ==
    found(guidance1, group_b) /\ found(guidance2, group_a)

GuidanceRecord(fb1, fb2, first, second) ==
    [feedback_1 |-> [checkpoint |-> fb1.checkpoint, guidance |-> fb1.guidance,
                     timestamp |-> fb1.timestamp, decision |-> fb1.decision],
     feedback_2 |-> [checkpoint |-> fb2.checkpoint, guidance |-> fb2.guidance,
                     timestamp |-> fb2.timestamp, decision |-> fb2.decision],
     contradiction_type |-> first \o " vs " \o second,
     severity |-> "moderate"]

\* the records the first loop appends for one pair of feedbacks
GuidanceContradictions(fb1, fb2) ==
    LET guidance1 == lower(fb1.guidance)
        guidance2 == lower(fb2.guidance)
    IN  IF fb1.checkpoint = fb2.checkpoint THEN <<>>
        ELSE IF guidance1 = "" \/ guidance2 = "" THEN <<>>
        ELSE Flatten([k \in 1..Len(contradiction_pairs) |->
               LET group_a == contradiction_pairs[k][1]
                   group_b == contradiction_pairs[k][2]
               IN  (IF found(guidance1, group_a) /\ found(guidance2, group_b)
                    THEN <<GuidanceRecord(fb1, fb2, group_a[1], group_b[1])>>
                    ELSE <<>>)
                   \o
                   (IF opposite_direction(guidance1, guidance2, group_a,
                                          group_b)
                    THEN <<GuidanceRecord(fb1, fb2, group_b[1], group_a[1])>>
                    ELSE <<>>)])

LowerSet(claims) == {lower(claims[c]) : c \in 1..Len(claims)}

\* the records the second loop appends for one pair of feedbacks
PriorityContradictions(fb1, fb2) ==
    LET claims1_set == LowerSet(fb1.priority_claims)
        claims2_set == LowerSet(fb2.priority_claims)
    IN  IF fb1.checkpoint = fb2.checkpoint THEN <<>>
        ELSE IF /\ claims1_set # {}
                /\ claims2_set # {}
                /\ claims1_set \cap claims2_set = {}
        THEN << [feedback_1 |-> [checkpoint |-> fb1.checkpoint,
                                 priority_claims |-> fb1.priority_claims,
                                 timestamp |-> fb1.timestamp],
                 feedback_2 |-> [checkpoint |-> fb2.checkpoint,
                                 priority_claims |-> fb2.priority_claims,
                                 timestamp |-> fb2.timestamp],
                 contradiction_type |-> "shifting_priorities",
                 severity |-> "low"] >>
        ELSE <<>>

detect_feedback_contradictions(feedback_history) ==
    IF Len(feedback_history) < 2 THEN <<>>
    ELSE LET pairs == IndexPairs(Len(feedback_history)) IN
         Flatten([p \in 1..Len(pairs) |->
                    GuidanceContradictions(feedback_history[pairs[p][1]],
                                           feedback_history[pairs[p][2]])])
         \o
         Flatten([p \in 1..Len(pairs) |->
                    PriorityContradictions(feedback_history[pairs[p][1]],
                                           feedback_history[pairs[p][2]])])

\* HumanFeedback objects of hitl/schemas.py; the timestamp is the place in
\* DetectGuidances
DetectGuidances ==
    << <<"revise", "make it shorter", <<"cost analysis">> >>,
       <<"revise", "Add more detail", <<"Cost analysis">> >>,
       <<"revise", "Keep it SIMPLE", <<"Risk review">> >>,
       <<"approve", "", <<>> >> >>

DetectEntries ==
    {[checkpoint |-> CheckpointId("post_thesis", cycle),
      decision |-> DetectGuidances[g][1], guidance |-> DetectGuidances[g][2],
      priority_claims |-> DetectGuidances[g][3], timestamp |-> g] :
        cycle \in 1..2, g \in 1..Len(DetectGuidances)}

DetectHistories == UNION {[1..n -> DetectEntries] : n \in 0..MaxDetect}

AnalysisInit ==
    /\ Fresh
    /\ graph = "v2"
    /\ intervention_mode = "reviewer"
    /\ max_cycles = 1
    /\ min_cycles = 1
    /\ human_feedback_history \in DetectHistories

\* contradictions = detect_feedback_contradictions(feedback_history)
detect_contradictions ==
    /\ lib_result' = Returned("detect_feedback_contradictions", <<>>,
                         detect_feedback_contradictions(human_feedback_history))
    /\ UNCHANGED <<threads, runner, session, llm_input, config, node, prev, waiting,
                   steps, contributions, current_consensus_score, cycle_count,
                   final_plan, current_checkpoint, paused_at, human_feedback,
                   hitl3, hitl2, lists, checkpoint_history, track_calls>>

AnalysisNext == detect_contradictions

AnalysisSpec == AnalysisInit /\ [][AnalysisNext]_vars

\* hitl/effectiveness.py.  A score is the fraction num / den, which the
\* code holds as a float.
RECURSIVE GCD(_, _)
GCD(a, b) == IF b = 0 THEN a ELSE GCD(b, a % b)

\* num / den in lowest terms
Fraction(num, den) ==
    LET divisor == IF num = 0 THEN den ELSE GCD(den, IF num < 0 THEN 0 - num ELSE num)
    IN  [num |-> num \div divisor, den |-> den \div divisor]

Max(a, b) == IF a >= b THEN a ELSE b

Abs(a) == IF a >= 0 THEN a ELSE 0 - a

\* " ".join(text.split())
normalize_whitespace(text) == Join(" ", split(text))

get_char_bigrams(text) == {SubSeq(text, i, i + 1) : i \in 1..(Len(text) - 1)}

\* what the two sets share over all their members, counted with repeats
shared_over_total(bigrams_orig, bigrams_rev) ==
    Fraction(Cardinality(bigrams_orig \cap bigrams_rev),
             Cardinality(bigrams_orig) + Cardinality(bigrams_rev))

\* intersection / union if union > 0 else 0.0
jaccard_similarity(bigrams_orig, bigrams_rev) ==
    LET intersection == Cardinality(bigrams_orig \cap bigrams_rev)
        union == Cardinality(bigrams_orig \cup bigrams_rev)
    IN  IF union > 0 THEN Fraction(intersection, union) ELSE Fraction(0, 1)

\* min(1.0, max(0.0, score))
clamp(score) ==
    IF score.num < 0 THEN Fraction(0, 1)
    ELSE IF score.num > score.den THEN Fraction(1, 1)
    ELSE score

compute_structural_change_score(original_text, revised_text) ==
    IF original_text = "" \/ revised_text = "" THEN Fraction(0, 1)
    ELSE
    LET original == normalize_whitespace(original_text)
        revised == normalize_whitespace(revised_text)
        len_diff == Abs(Len(revised) - Len(original))
        len_max == Max(Max(Len(original), Len(revised)), 1)
        words_orig == Len(split(original))
        words_rev == Len(split(revised))
        word_diff == Abs(words_rev - words_orig)
        word_max == Max(Max(words_orig, words_rev), 1)
        bigrams_orig == get_char_bigrams(lower(original))
        bigrams_rev == get_char_bigrams(lower(revised))
    IN  IF bigrams_orig = {} \/ bigrams_rev = {} THEN Fraction(0, 1)
        ELSE LET similarity == jaccard_similarity(bigrams_orig, bigrams_rev)
                 \* len_ratio * 0.3 + word_ratio * 0.3 + jaccard_change * 0.4
             IN  clamp(Fraction(
                   3 * len_diff * word_max * similarity.den
                   + 3 * word_diff * len_max * similarity.den
                   + 4 * (similarity.den - similarity.num) * len_max * word_max,
                   10 * len_max * word_max * similarity.den))

\* agent outputs
Texts ==
    {"", " ", "a", "ab", "Ab", "ab cd", "ab  cd", " ab cd", "abc abd",
     "the plan", "The plan is short", "a b"}

ScoreInit ==
    /\ Fresh
    /\ graph = "v2"
    /\ intervention_mode = "reviewer"
    /\ max_cycles = 1
    /\ min_cycles = 1
    /\ human_feedback_history = <<>>

\* score = compute_structural_change_score(original, revised)
structural_change ==
    \E original \in Texts, revised \in Texts :
      /\ lib_result' = Returned("compute_structural_change_score",
                          <<original, revised>>,
                          compute_structural_change_score(original, revised))
      /\ UNCHANGED <<threads, runner, session, llm_input, config, node, prev, waiting,
                     steps, contributions, current_consensus_score,
                     cycle_count, final_plan, current_checkpoint, paused_at,
                     human_feedback, hitl3, hitl2, lists, checkpoint_history,
                     track_calls>>

ScoreNext == structural_change

ScoreSpec == ScoreInit /\ [][ScoreNext]_vars

\* the tiers of compute_feedback_effectiveness
FAdd(a, b) == Fraction(a.num * b.den + b.num * a.den, a.den * b.den)

\* score * (tenths / 10)
Weighted(score, tenths) == Fraction(score.num * tenths, score.den * 10)

\* score >= tenths / 10
AtLeast(score, tenths) == 10 * score.num >= tenths * score.den

\* round(score, 2) in hundredths; a tie goes up
round2(score) == (200 * score.num + score.den) \div (2 * score.den)

Digits == "0123456789"

WordChars == LowerCase \o UpperCase \o Digits \o "_"

IsIn(c, chars) == \E i \in 1..Len(chars) : Char(chars, i) = c

\* re.findall(r'\b\w+\b', s) from position i on, word being the word begun
RECURSIVE FindWordsFrom(_, _, _)
FindWordsFrom(s, i, word) ==
    IF i > Len(s) THEN (IF word = "" THEN <<>> ELSE <<word>>)
    ELSE IF IsIn(Char(s, i), WordChars)
         THEN FindWordsFrom(s, i + 1, word \o Char(s, i))
         ELSE (IF word = "" THEN <<>> ELSE <<word>>)
              \o FindWordsFrom(s, i + 1, "")

findall_words(s) == FindWordsFrom(s, 1, "")

stopwords ==
    {"the", "a", "an", "and", "or", "but", "in", "on", "at", "to", "for",
     "of", "with", "by", "from", "as", "is", "was", "are", "were", "be",
     "been", "being", "have", "has", "had", "do", "does", "did", "will",
     "would", "should", "could", "may", "might", "must", "can", "about",
     "more", "add", "include", "provide", "make", "use", "this", "that",
     "these", "those", "your", "you", "please", "also", "very", "just"}

\* [w for w in words if w not in stopwords and len(w) > longer_than]
Keywords(words, longer_than) ==
    SelectSeq(words, LAMBDA w : w \notin stopwords /\ Len(w) > longer_than)

\* sum(1 for w in words if w in text)
CountFound(words, text) ==
    Cardinality({w \in 1..Len(words) : Contains(text, words[w])})

compute_keyword_match_score(revised, feedback) ==
    IF feedback.guidance = "" THEN Fraction(1, 2)
    ELSE
    LET keywords == Keywords(findall_words(lower(feedback.guidance)), 3) IN
    IF keywords = <<>> THEN Fraction(1, 2)
    ELSE
    LET revised_lower == lower(revised)
        keyword_score == Fraction(CountFound(keywords, revised_lower),
                                  Len(keywords))
        total_claims == Len(feedback.priority_claims)
        claims_found ==
            Cardinality({c \in 1..total_claims :
                LET claim_keywords ==
                      Keywords(findall_words(lower(feedback.priority_claims[c])),
                               2)
                IN  /\ claim_keywords # <<>>
                    /\ 2 * CountFound(claim_keywords, revised_lower)
                         >= Len(claim_keywords)})
    IN  IF total_claims > 0
        THEN FAdd(Weighted(keyword_score, 4),
                  Weighted(Fraction(claims_found, total_claims), 6))
        ELSE keyword_score

\* the digits of s from position i on, read after the number num / den
RECURSIVE DigitsFrom(_, _, _, _)
DigitsFrom(s, i, num, den) ==
    IF i <= Len(s) /\ IsIn(Char(s, i), Digits)
    THEN DigitsFrom(s, i + 1,
                    10 * num + (CHOOSE d \in 0..9 :
                                  Char(Digits, d + 1) = Char(s, i)),
                    10 * den)
    ELSE [num |-> num, den |-> den, next |-> i]

\* re.search(r'(\d+\.?\d*)', response) and float(match.group(1))
search_number(response) ==
    LET starts == {i \in 1..Len(response) : IsIn(Char(response, i), Digits)}
    IN  IF starts = {} THEN [match |-> FALSE, score |-> Fraction(0, 1)]
        ELSE
        LET first == CHOOSE i \in starts : \A j \in starts : i <= j
            whole == DigitsFrom(response, first, 0, 1)
            number ==
                IF whole.next <= Len(response)
                   /\ Char(response, whole.next) = "."
                THEN LET all == DigitsFrom(response, whole.next + 1,
                                           whole.num, 1)
                     IN  Fraction(all.num, all.den)
                ELSE Fraction(whole.num, 1)
        IN  [match |-> TRUE, score |-> number]

\* what llm_callable(prompt) does: the callable is absent, raises, or
\* returns a response
LlmCallables == {"None", "raises", "0.9", "Score: 0.25", "high"}

Scored(score) == [raised |-> FALSE, none |-> FALSE, score |-> score]

\* a semantic tier without the try
semantic_tier_uncaught(llm_callable) ==
    IF llm_callable = "None" THEN Scored(Fraction(1, 2))
    ELSE IF llm_callable = "raises"
    THEN [raised |-> TRUE, none |-> FALSE, score |-> Fraction(0, 1)]
    ELSE LET found_number == search_number(llm_callable) IN
         IF found_number.match THEN Scored(clamp(found_number.score))
         ELSE Scored(Fraction(1, 2))

compute_semantic_effectiveness_llm(llm_callable) ==
    IF llm_callable = "None" THEN Scored(Fraction(1, 2))
    ELSE IF llm_callable = "raises" THEN Scored(Fraction(1, 2))
    ELSE LET found_number == search_number(llm_callable) IN
         IF found_number.match THEN Scored(clamp(found_number.score))
         ELSE Scored(Fraction(1, 2))

compute_feedback_effectiveness(original, revised, feedback, use_llm_scoring, llm_callable) ==
    LET args == <<original, revised, feedback, use_llm_scoring, llm_callable>>
        structural_score == compute_structural_change_score(original, revised)
        keyword_score == compute_keyword_match_score(revised, feedback)
        semantic_score ==
            IF use_llm_scoring
            THEN compute_semantic_effectiveness_llm(llm_callable)
            ELSE [raised |-> FALSE, none |-> TRUE, score |-> Fraction(0, 1)]
        overall_score ==
            IF ~semantic_score.none
            THEN FAdd(FAdd(Weighted(structural_score, 2),
                           Weighted(keyword_score, 3)),
                      Weighted(semantic_score.score, 5))
            ELSE FAdd(Weighted(structural_score, 4),
                      Weighted(keyword_score, 6))
        interpretation ==
            IF AtLeast(overall_score, 8) THEN "Excellent"
            ELSE IF AtLeast(overall_score, 6) THEN "Good"
            ELSE IF AtLeast(overall_score, 4) THEN "Fair"
            ELSE IF AtLeast(overall_score, 2) THEN "Poor"
            ELSE "Minimal"
    IN  IF semantic_score.raised
        THEN Raised("compute_feedback_effectiveness", args,
                    [type |-> "Exception"])
        ELSE Returned("compute_feedback_effectiveness", args,
               [overall |-> round2(overall_score),
                structural |-> round2(structural_score),
                keyword_match |-> round2(keyword_score),
                interpretation |-> interpretation,
                details |-> [original_length |-> Len(original),
                             revised_length |-> Len(revised),
                             feedback_decision |-> feedback.decision,
                             guidance_provided |-> feedback.guidance # "",
                             priority_claims_count |->
                                 Len(feedback.priority_claims),
                             flagged_concerns_count |->
                                 Len(feedback.flagged_concerns)],
                semantic |-> IF semantic_score.none THEN None
                             ELSE <<round2(semantic_score.score)>>])

\* the feedbacks and outputs the scorer is called on during a run
ScoredFeedbacks ==
    {[checkpoint |-> CheckpointId("post_thesis", 1), decision |-> "revise",
      guidance |-> "make the plan short", priority_claims |-> <<>>,
      flagged_concerns |-> <<>>],
     [checkpoint |-> CheckpointId("post_thesis", 1), decision |-> "revise",
      guidance |-> "Please shorten this", priority_claims |-> <<"Short plan">>,
      flagged_concerns |-> <<"Budget risk">>],
     [checkpoint |-> CheckpointId("post_thesis", 1), decision |-> "approve",
      guidance |-> "", priority_claims |-> <<>>, flagged_concerns |-> <<>>]}

ScoredTexts == {"the plan", "The plan is short"}

\* EffectSpec: a run of the v2 workflow during which the scorer is called
EffectInit == Init /\ graph = "v2"

\* the calls of the scorer, each with what it returns
EffectivenessCalls ==
    {compute_feedback_effectiveness(original, revised, feedback,
                                    use_llm_scoring, llm_callable) :
       original \in ScoredTexts, revised \in ScoredTexts,
       feedback \in ScoredFeedbacks,
       <<use_llm_scoring, llm_callable>> \in
           {<<FALSE, "None">>} \cup ({TRUE} \X LlmCallables)}

\* result = compute_feedback_effectiveness(original, revised, feedback,
\* use_llm_scoring, llm_callable)
score_effectiveness ==
    \E call \in EffectivenessCalls :
      /\ lib_result' = call
      /\ UNCHANGED <<threads, runner, session, llm_input, config, node, prev, waiting,
                     steps, contributions, current_consensus_score,
                     cycle_count, final_plan, current_checkpoint, paused_at,
                     human_feedback, hitl3, hitl2, lists, checkpoint_history,
                     track_calls>>

EffectNext ==
    \/ katalizator_node
    \/ sceptyk_node
    \/ gubernator_node
    \/ syntezator_node
    \/ increment_cycle
    \/ checkpoint_skip
    \/ checkpoint_node_v2
    \/ score_effectiveness

EffectSpec == EffectInit /\ [][EffectNext]_vars

\* ------------------------------------------------- the Streamlit session
\* streamlit_app: one browser session in which the user stops a debate and
\* starts further ones.  SessionInit is the session after the first
\* start_debate; the workflow is the one _run_debate builds.

SessionInit ==
    /\ Init
    /\ graph = "v3"
    /\ handler = "streamlit"
    /\ max_cycles = 1
    /\ min_cycles = 1

\* app.py Stop button (disabled unless debate_running), state_manager.py
\* StateManager.stop_debate, debate_runner.py DebateRunner.stop
stop_debate ==
    /\ session_state.debate_running
    /\ running' = FALSE
    /\ session_state' = [session_state EXCEPT !.debate_running = FALSE]
    /\ UNCHANGED <<threads, config, node, prev, waiting, steps, contributions,
                   current_consensus_score, cycle_count, final_plan,
                   current_checkpoint, paused_at, human_feedback, hitl3, hitl2,
                   lists, checkpoint_history, lib, llm_input, runs,
                   session_lists>>

\* StateManager.reset: st.session_state[key] = value for the keys of
\* DEFAULT_SESSION_STATE: the session holds the default list object again,
\* whatever was appended to it
reset == [DEFAULT_SESSION_STATE(FALSE) EXCEPT
             !.feedback_history = DEFAULT_FEEDBACK_HISTORY]

\* app.py Start Debate button (disabled while debate_running),
\* StateManager.start_debate: reset(), a new DebateRunner, runner.start(),
\* and _run_debate invokes a newly compiled graph on a new DebateStateHITL.
\* The debate that is left has completed: its thread has returned.  reset
\* leaves mission_input and intervention_mode as they are, and the user
\* starts the further debate with them.
start_debate ==
    /\ runs < MaxRuns
    /\ ~session_state.debate_running
    /\ node = "END"
    /\ runs' = runs + 1
    /\ session_state' = [reset EXCEPT !.debate_running = TRUE,
                                 !.debate_runner = runs']
    /\ running' = TRUE
    /\ node' = "katalizator"
    /\ prev' = "START"
    /\ waiting' = FALSE
    /\ steps' = 0
    /\ contributions' = <<>>
    /\ lists' = << <<>> >>
    /\ current_consensus_score' = 0
    /\ cycle_count' = 1
    /\ final_plan' = "None"
    /\ current_checkpoint' = None
    /\ paused_at' = None
    /\ human_feedback' = <<>>
    /\ revision_count' = 0
    /\ previous_outputs' = [a \in {} |-> 0]
    /\ checkpoint_history' = <<>>
    /\ llm_input' = [agent_id |-> "none", system |-> <<>>]
    /\ UNCHANGED <<threads, config, hitl2, lib, session_lists>>

\* the nodes of the graph _run_debate builds, the feedback form and the
\* two buttons
SessionNext ==
    \/ katalizator_node
    \/ sceptyk_node
    \/ gubernator_node
    \/ syntezator_node
    \/ checkpoint_skip
    \/ checkpoint_node_wait
    \/ submit_feedback
    \/ stop_debate
    \/ start_debate

SessionSpec == SessionInit /\ [][SessionNext]_vars

\* ------------------------------------------------------------- properties

Stages == {"katalizator", "sceptyk", "gubernator", "syntezator"}

\* ------------------------------------------ the threads of the session
\* streamlit_app: the thread of each DebateRunner and the script run of the
\* UI share st.session_state and the runner's queue, and neither takes a
\* lock.  ThreadSpec follows StreamlitCheckpointHandler.handle_checkpoint
\* and StateManager.submit_feedback one statement at a time; what a thread
\* does between two checkpoints is one step.  The other specifications
\* leave runners and ui as they are.

\* checkpoint_data of the k-th checkpoint of runner r
CheckpointData(r, k) == ToString(r) \o ":" \o ToString(k)

RECURSIVE CheckpointsReachedFrom(_, _)
CheckpointsReachedFrom(heap, r) ==
    IF r > Len(heap) THEN 0
    ELSE heap[r].checkpoint + CheckpointsReachedFrom(heap, r + 1)

\* the checkpoints the threads of the session have reached
CheckpointsReached(heap) == CheckpointsReachedFrom(heap, 1)

ThreadInit ==
    /\ Init
    /\ graph = "v3"
    /\ handler = "streamlit"
    /\ intervention_mode = "reviewer"
    /\ max_cycles = 1
    /\ min_cycles = 1

ThreadFrame ==
    UNCHANGED <<config, node, prev, waiting, steps, contributions,
                current_consensus_score, cycle_count, final_plan,
                current_checkpoint, paused_at, human_feedback, hitl3, hitl2,
                lists, checkpoint_history, lib, llm_input, runner, cache,
                classify_calls>>

\* the graph reaches a checkpoint node and handle_checkpoint runs
\* st.session_state.current_checkpoint = checkpoint_data
signal_checkpoint(r) ==
    /\ runners[r].pc = "run"
    /\ runners[r].last_decision # "reject"
    /\ CheckpointsReached(runners) < MaxCheckpoints
    /\ runners' = [runners EXCEPT ![r].pc = "signal_awaiting",
                                  ![r].checkpoint = @ + 1]
    /\ session_state' =
          [session_state EXCEPT
              !.current_checkpoint =
                  CheckpointData(r, runners[r].checkpoint + 1)]
    /\ UNCHANGED <<ui, session_lists>>
    /\ ThreadFrame

\* st.session_state.awaiting_feedback = True
signal_awaiting(r) ==
    /\ runners[r].pc = "signal_awaiting"
    /\ runners' = [runners EXCEPT ![r].pc = "signal_running"]
    /\ session_state' = [session_state EXCEPT !.awaiting_feedback = TRUE]
    /\ UNCHANGED <<ui, session_lists>>
    /\ ThreadFrame

\* st.session_state.debate_running = False
signal_running(r) ==
    /\ runners[r].pc = "signal_running"
    /\ runners' = [runners EXCEPT ![r].pc = "get"]
    /\ session_state' = [session_state EXCEPT !.debate_running = FALSE]
    /\ UNCHANGED <<ui, session_lists>>
    /\ ThreadFrame

\* feedback_data = self.feedback_queue.get(): blocks while the queue is
\* empty; the HumanFeedback is built for the handler's own checkpoint
queue_get(r) ==
    /\ runners[r].pc = "get"
    /\ runners[r].feedback_queue # <<>>
    /\ runners' = [runners EXCEPT
                      ![r].pc = "run",
                      ![r].last_decision =
                          Head(runners[r].feedback_queue).decision,
                      ![r].feedback_queue = Tail(@)]
    /\ UNCHANGED <<ui, session>>
    /\ ThreadFrame

\* compiled_graph.invoke returns and _run_debate sets the flags
run_completes(r) ==
    /\ runners[r].pc = "run"
    /\ runners' = [runners EXCEPT ![r].pc = "done"]
    /\ session_state' = [session_state EXCEPT !.debate_complete = TRUE,
                                              !.debate_running = FALSE,
                                              !.awaiting_feedback = FALSE]
    /\ UNCHANGED <<ui, session_lists>>
    /\ ThreadFrame

\* app.py: the checkpoint screen is drawn while awaiting_feedback, and
\* collect_feedback reads checkpoint_data.get(...), which raises on None.
\* StateManager.submit_feedback up to runner.submit_feedback: the dict is
\* appended to the history and put on the queue of the runner the session
\* holds.
ui_submit_feedback ==
    \E decision \in {"approve", "reject"} :
      LET feedback == [decision |-> decision,
                       checkpoint |-> session_state.current_checkpoint]
          held == session_state.debate_runner
      IN  /\ ui.pc = "idle"
          /\ session_state.awaiting_feedback
          /\ session_state.current_checkpoint # "None"
          /\ session_lists' =
                [session_lists EXCEPT ![session_state.feedback_history] =
                    Append(@, feedback)]
          /\ runners' = IF held # 0
                        THEN [runners EXCEPT ![held].feedback_queue =
                                 Append(@, feedback)]
                        ELSE runners
          /\ ui' = [pc |-> "clear_awaiting"]
          /\ UNCHANGED session_state
          /\ ThreadFrame

\* st.session_state.awaiting_feedback = False
ui_clear_awaiting ==
    /\ ui.pc = "clear_awaiting"
    /\ session_state' = [session_state EXCEPT !.awaiting_feedback = FALSE]
    /\ ui' = [pc |-> "clear_checkpoint"]
    /\ UNCHANGED <<runners, session_lists>>
    /\ ThreadFrame

\* st.session_state.current_checkpoint = None
ui_clear_checkpoint ==
    /\ ui.pc = "clear_checkpoint"
    /\ session_state' = [session_state EXCEPT !.current_checkpoint = "None"]
    /\ ui' = [pc |-> "set_running"]
    /\ UNCHANGED <<runners, session_lists>>
    /\ ThreadFrame

\* st.session_state.debate_running = True, and st.rerun()
ui_set_running ==
    /\ ui.pc = "set_running"
    /\ session_state' = [session_state EXCEPT !.debate_running = TRUE]
    /\ ui' = Idle
    /\ UNCHANGED <<runners, session_lists>>
    /\ ThreadFrame

\* DebateRunner.stop
stop(heap, r) == [heap EXCEPT ![r].running = FALSE]

\* DebateRunner.cleanup: stop(), and a join of at most a second, after
\* which the thread is where it was
cleanup(heap, r) == [stop(heap, r) EXCEPT ![r].cleanup_called = TRUE]

\* app.py Stop button and StateManager.stop_debate
ui_stop_debate ==
    /\ ui.pc = "idle"
    /\ session_state.debate_running
    /\ runners' = IF session_state.debate_runner # 0
                  THEN stop(runners, session_state.debate_runner)
                  ELSE runners
    /\ session_state' = [session_state EXCEPT !.debate_running = FALSE]
    /\ UNCHANGED <<ui, session_lists>>
    /\ ThreadFrame

\* StateManager.reset on the runners: the loop has stored the default of
\* every key but two, "debate_runner": None among them, when
\* st.session_state.get("debate_runner") is tested
reset_runners(heap) ==
    IF reset.debate_runner # 0 THEN cleanup(heap, reset.debate_runner)
    ELSE heap

\* app.py Start Debate button (disabled while debate_running) and
\* StateManager.start_debate: reset(), a new DebateRunner, runner.start()
ui_start_debate ==
    /\ ui.pc = "idle"
    /\ ~session_state.debate_running
    /\ Len(runners) < MaxRuns
    /\ runners' = Append(reset_runners(runners), StartedRunner)
    /\ session_state' = [reset EXCEPT !.debate_running = TRUE,
                                      !.debate_runner = Len(runners) + 1]
    /\ UNCHANGED <<ui, session_lists>>
    /\ ThreadFrame

\* app.py Start New Debate button of the results screen: reset()
ui_reset ==
    /\ ui.pc = "idle"
    /\ session_state.debate_complete
    /\ ~session_state.awaiting_feedback
    /\ ~session_state.debate_running
    /\ runners' = reset_runners(runners)
    /\ session_state' = reset
    /\ UNCHANGED <<ui, session_lists>>
    /\ ThreadFrame

ThreadNext ==
    \/ \E r \in 1..Len(runners) :
          \/ signal_checkpoint(r)
          \/ signal_awaiting(r)
          \/ signal_running(r)
          \/ queue_get(r)
          \/ run_completes(r)
    \/ ui_submit_feedback
    \/ ui_clear_awaiting
    \/ ui_clear_checkpoint
    \/ ui_set_running
    \/ ui_stop_debate
    \/ ui_start_debate
    \/ ui_reset

ThreadSpec == ThreadInit /\ [][ThreadNext]_vars

\* ------------------------------------------------ the classification cache
\* explainability/classifier.py: one ConceptClassifier whose classify is
\* called from several threads.  The object takes no lock; CacheSpec
\* follows each call one statement at a time.

\* ConceptClassifier(cache_size=2)
cache_size == 2

RETRY_ATTEMPTS == 3

\* the threads that share the classifier
ClassifyThreads == 2

\* the texts classified: one too short, and enough others to fill the cache
\* while every thread brings a new one
ClassifiedTexts ==
    {"short"} \cup {"classify text " \o ToString(i) :
                       i \in 1..(cache_size + ClassifyThreads)}

\* the calls of classify that have not returned
Running(calls) == {c \in 1..Len(calls) : calls[c].pc # "returned"}

\* hashlib.sha256(text.encode("utf-8")).hexdigest(): texts that differ have
\* keys that differ
_compute_cache_key(text) == "sha256(" \o text \o ")"

InCache(keys, key) == \E i \in 1..Len(keys) : keys[i] = key

\* del self._cache[key]
Delete(keys, key) == SelectSeq(keys, LAMBDA k : k # key)

CacheFrame ==
    UNCHANGED <<config, node, prev, waiting, steps, contributions,
                current_consensus_score, cycle_count, final_plan,
                current_checkpoint, paused_at, human_feedback, hitl3, hitl2,
                lists, checkpoint_history, lib, llm_input, runner, session,
                runners, ui>>

\* the call returned
Returns(call, result) == [call EXCEPT !.pc = "returned", !.result = result]

\* except Exception in classify: the next attempt, or None after the last
Except(call, error) ==
    IF call.attempt < RETRY_ATTEMPTS
    THEN [call EXCEPT !.pc = "llm", !.attempt = @ + 1, !.raised = error]
    ELSE [Returns(call, "None") EXCEPT !.raised = error]

\* classify(text) up to the cache test; no text here reaches MAX_TEXT_LENGTH
classify ==
    \E text \in ClassifiedTexts :
      LET cache_key == _compute_cache_key(text)
          call == [pc |-> "llm", key |-> cache_key, attempt |-> 1,
                   oldest_key |-> "", result |-> "", raised |-> ""]
      IN  /\ Len(classify_calls) < MaxClassifyCalls
          /\ Cardinality(Running(classify_calls)) < ClassifyThreads
          /\ classify_calls' =
                Append(classify_calls,
                       IF Len(strip(text)) < 10
                       THEN Returns(call, "zero_vector")
                       ELSE IF InCache(cache, cache_key)
                       THEN Returns(call, "cache_hit")
                       ELSE call)
          /\ UNCHANGED cache
          /\ CacheFrame

\* concept_scores = self._classify_with_llm(text), which may raise
classify_with_llm(c) ==
    /\ classify_calls[c].pc = "llm"
    /\ \E ok \in BOOLEAN :
         classify_calls' =
            [classify_calls EXCEPT
                ![c] = IF ok THEN [@ EXCEPT !.pc = "test_full"]
                       ELSE Except(@, "LLMError")]
    /\ UNCHANGED cache
    /\ CacheFrame

\* _cache_result: if len(self._cache) >= self._cache_size
cache_test_full(c) ==
    /\ classify_calls[c].pc = "test_full"
    /\ classify_calls' =
          [classify_calls EXCEPT
              ![c].pc = IF Len(cache) >= cache_size THEN "oldest"
                        ELSE "store"]
    /\ UNCHANGED cache
    /\ CacheFrame

\* oldest_key = next(iter(self._cache)), StopIteration on an empty dict
cache_oldest_key(c) ==
    /\ classify_calls[c].pc = "oldest"
    /\ classify_calls' =
          [classify_calls EXCEPT
              ![c] = IF cache = <<>> THEN Except(@, "StopIteration")
                     ELSE [@ EXCEPT !.pc = "delete",
                                    !.oldest_key = Head(cache)]]
    /\ UNCHANGED cache
    /\ CacheFrame

\* del self._cache[oldest_key], KeyError when the key has gone
cache_delete(c) ==
    /\ classify_calls[c].pc = "delete"
    /\ IF InCache(cache, classify_calls[c].oldest_key)
       THEN /\ cache' = Delete(cache, classify_calls[c].oldest_key)
            /\ classify_calls' = [classify_calls EXCEPT ![c].pc = "store"]
       ELSE /\ cache' = cache
            /\ classify_calls' =
                  [classify_calls EXCEPT ![c] = Except(@, "KeyError")]
    /\ CacheFrame

\* self._cache[key] = vector, and classify returns the vector
cache_store(c) ==
    /\ classify_calls[c].pc = "store"
    /\ cache' = IF InCache(cache, classify_calls[c].key) THEN cache
                ELSE Append(cache, classify_calls[c].key)
    /\ classify_calls' =
          [classify_calls EXCEPT ![c] = Returns(@, "vector")]
    /\ CacheFrame

CacheInit ==
    /\ Init
    /\ graph = "v2"
    /\ intervention_mode = "reviewer"
    /\ max_cycles = 1
    /\ min_cycles = 1

CacheNext ==
    \/ classify
    \/ \E c \in 1..Len(classify_calls) :
          \/ classify_with_llm(c)
          \/ cache_test_full(c)
          \/ cache_oldest_key(c)
          \/ cache_delete(c)
          \/ cache_store(c)

CacheSpec == CacheInit /\ [][CacheNext]_vars

\* the node that runs an agent
NodeOfAgent(agent) ==
    CASE agent = "Katalizator" -> "katalizator"
      [] agent = "Sceptyk" -> "sceptyk"
      [] agent = "Gubernator" -> "gubernator"
      [] agent = "Syntezator" -> "syntezator"

\* positions in the log of the contributions of the thesis stage
Theses == {i \in DOMAIN contributions : contributions[i].agent_id = "Katalizator"}

\* the routing predicate has just been evaluated: the state is the one it saw
RoutingEvaluated ==
    prev = IF graph = "base" THEN "gubernator" ELSE "checkpoint_post_evaluation"

ToSynthesis == node \in {"checkpoint_pre_synthesis", "syntezator"}

\* C1: with max_cycles = M a run goes through at most M cycles before it is
\* terminal, whatever the scores and the feedback decisions: the thesis
\* stage never runs more than M times.
C1_AtMostMaxCycles == Cardinality(Theses) <= max_cycles

\* C2: whenever the routing predicate is evaluated with cycle_count >= the
\* configured max_cycles, the next stage is synthesis.
C2_HardCapDominates ==
    (RoutingEvaluated /\ cycle_count >= max_cycles) => ToSynthesis

\* C3: evaluated with cycle_count below max_cycles, routing selects synthesis
\* if and only if the score meets the threshold and cycle_count >= min_cycles.
C3_ThresholdAndMinCycles ==
    (RoutingEvaluated /\ cycle_count < max_cycles) =>
        (ToSynthesis <=> (current_consensus_score >= consensus_threshold
                          /\ cycle_count >= min_cycles))

\* C4: every thesis after the first is produced in a cycle exactly one
\* higher than the thesis before it.
C4_ThesisCyclesIncrease ==
    \A i, j \in Theses :
        (i < j /\ ~\E k \in Theses : i < k /\ k < j) =>
            contributions[j].cycle = contributions[i].cycle + 1

\* The identifier of the checkpoint a feedback answers: its type and the
\* cycle, which the v3 run never changes.
RevisesAt(type) ==
    {i \in DOMAIN human_feedback :
        /\ human_feedback[i].checkpoint = type
        /\ human_feedback[i].decision = "revise"}

\* C5: the number of revise decisions acted on for one checkpoint never
\* exceeds the revision ceiling.
C5_RevisionsBounded ==
    \A type \in CheckpointType :
        Cardinality(RevisesAt(type)) <= max_revisions_per_cycle

C5_Witness ==
    \E type \in CheckpointType :
        Cardinality(RevisesAt(type)) = max_revisions_per_cycle

Rejected ==
    \E i \in DOMAIN human_feedback : human_feedback[i].decision = "reject"

\* C6: after a reject decision no further stage is invoked, and the run ends
\* without a final plan.
C6_RejectEndsRun ==
    [][Rejected => /\ contributions' = contributions
                   /\ (node' = "END" => final_plan' = "None")]_vars

\* a checkpoint has just been resolved by the last feedback of the log
JustResolved ==
    /\ prev \in CheckpointNodes
    /\ human_feedback # <<>>
    /\ Last(human_feedback).timestamp + 1 = steps

\* C7: after a revise decision within the revision ceiling, the next node to
\* run is the stage whose contribution was under review.
C7_ReviseRerunsStage ==
    (/\ JustResolved
     /\ Last(human_feedback).decision = "revise"
     /\ revision_count <= max_revisions_per_cycle
     /\ contributions # <<>>)
        => node = NodeOfAgent(Last(contributions).agent_id)

\* a checkpoint has fired and no feedback has resolved it yet
Suspended == waiting \/ current_checkpoint # None

\* C8: between the firing of a checkpoint and its feedback, no stage is
\* invoked.
C8_NoStageWhileSuspended ==
    [][Suspended => contributions' = contributions]_vars

\* C9: a run that waits for feedback at a checkpoint does not wait forever:
\* the timeout resolves the checkpoint if the human does not.
C9_WaitIsBounded == waiting ~> ~waiting

\* C10: the arriving feedback is appended to the end of the log, with
\* current_checkpoint and paused_at cleared, and current_checkpoint is none
\* whenever a stage runs.
C10_ResolutionClearsCheckpoint ==
    [][/\ (human_feedback' # human_feedback =>
             /\ Len(human_feedback') = Len(human_feedback) + 1
             /\ SubSeq(human_feedback', 1, Len(human_feedback)) = human_feedback
             /\ current_checkpoint' = None
             /\ paused_at' = None)
       /\ (contributions' # contributions => current_checkpoint = None)]_vars

\* the observer no-op case of checkpoint node n
ObserverNoOp(n) ==
    intervention_mode = "observer" /\ TypeOf(n) # "pre_synthesis"

\* checkpoint node n starts to run in this step: it returns, or it blocks
\* in handle_checkpoint
Fires(n) == node = n /\ ~waiting /\ (waiting' \/ steps' # steps)

\* C11: outside the observer no-op case, a checkpoint of type T firing in
\* cycle c sets current_checkpoint to the identifier of (T, c), sets
\* paused_at, and stores a snapshot of the current state under that
\* identifier.
C11_FiringRecordsCheckpoint ==
    [][\A n \in CheckpointNodes :
         (Fires(n) /\ ~ObserverNoOp(n)) =>
            LET id == CheckpointId(TypeOf(n), cycle_count) IN
              /\ current_checkpoint' = id
              /\ paused_at' # None
              /\ id \in DOMAIN checkpoint_snapshots'
              /\ Restore(checkpoint_snapshots'[id], lists')
                    = Restore(Snapshot, lists)]_vars

\* C12: a snapshot stored under an identifier stays in the snapshot mapping
\* under that identifier, unchanged, for the rest of the run.
C12_SnapshotsKept ==
    [][\A id \in DOMAIN checkpoint_snapshots :
         /\ id \in DOMAIN checkpoint_snapshots'
         /\ checkpoint_snapshots'[id] = checkpoint_snapshots[id]]_vars

\* every snapshot a snapshot mapping leads to, the snapshots held inside
\* snapshots included
RECURSIVE SnapshotsIn(_)
SnapshotsIn(m) ==
    UNION {{m[id]} \cup SnapshotsIn(m[id].checkpoint_snapshots) : id \in DOMAIN m}

\* C13: no later change of the live state changes what a snapshot already
\* taken holds: a v2 snapshot reads back the same before and after every
\* step, and an entry of the handler's history is never changed.
C13_SnapshotsImmutable ==
    [][/\ \A s \in SnapshotsIn(checkpoint_snapshots) :
            Restore(s, lists') = Restore(s, lists)
       /\ \A i \in DOMAIN checkpoint_history :
            /\ i \in DOMAIN checkpoint_history'
            /\ checkpoint_history'[i] = checkpoint_history[i]]_vars

C13_Witness ==
    \E s \in SnapshotsIn(checkpoint_snapshots) :
        /\ Restore(s, lists).contributions # contributions
        /\ Restore(s, lists).cycle_count # cycle_count

\* the four fields a restored state is compared on
Observable(state) ==
    <<state.mission, state.cycle_count, state.current_consensus_score,
      state.contributions>>

PreSynthesisFired ==
    \/ \E i \in DOMAIN human_feedback :
         human_feedback[i].checkpoint = "pre_synthesis"
    \/ \E id \in DOMAIN checkpoint_snapshots : id[1] = "pre_synthesis"

\* C15: in observer mode the synthesis stage runs only after the
\* pre-synthesis checkpoint has fired.
C15_ObserverReviewsBeforeSynthesis ==
    [][(/\ intervention_mode = "observer"
        /\ node = "syntezator"
        /\ contributions' # contributions) => PreSynthesisFired]_vars

\* C16: in observer mode a checkpoint other than pre-synthesis returns the
\* state as it was (no current_checkpoint, paused_at, snapshot or feedback
\* is written) and does not pause.
C16_ObserverNoOp ==
    [][\A n \in CheckpointNodes :
         (Fires(n) /\ ObserverNoOp(n)) =>
            /\ ~waiting'
            /\ UNCHANGED <<mission, intervention_mode, contributions,
                           current_consensus_score, cycle_count, final_plan,
                           current_checkpoint, paused_at, human_feedback,
                           hitl3, hitl2, lists, checkpoint_history>>]_vars

C16_Witness ==
    /\ intervention_mode = "observer"
    /\ prev \in {"checkpoint_post_thesis", "checkpoint_post_evaluation"}
    /\ graph = "v3"

\* C17: a revise decision arriving when the revision count already equals
\* the ceiling is not taken as another revision: the checkpoint is resolved
\* as approve or reject and the count stays.
C17_NoReviseAtCeiling ==
    [][(/\ waiting
        /\ revision_count >= max_revisions_per_cycle
        /\ human_feedback' # human_feedback)
         => /\ Last(human_feedback').decision \in {"approve", "reject"}
            /\ revision_count' = revision_count]_vars

\* every call so far was for the same checkpoint
SameCheckpoint(calls) == \A i \in DOMAIN calls : calls[i] = calls[1]

\* C18: track_revision called again and again for one checkpoint, each
\* returned update merged: calls 1, 2, 3 return the counts 1, 2, 3 and the
\* call after them raises the revision-limit error with that checkpoint,
\* current_count 3 and max_allowed 3.
C18_FourthTrackRaises ==
    (/\ track_calls # <<>>
     /\ SameCheckpoint(track_calls)
     /\ lib_result.fn = "track_revision")
      => LET c == track_calls[1]
             n == Len(track_calls) IN
         IF n <= 3
         THEN /\ lib_result.ok
              /\ lib_result.value = (c :> n)
              /\ revision_count_per_checkpoint = (c :> n)
         ELSE /\ ~lib_result.ok
              /\ lib_result.error = MaxRevisionsExceededError(c, 3, 3)
              /\ revision_count_per_checkpoint = (c :> 3)

C18_Witness ==
    /\ Len(track_calls) = 4
    /\ SameCheckpoint(track_calls)
    /\ lib_result.fn = "track_revision"
    /\ ~lib_result.ok

\* C19: every entry of the feedback log passes the construction rules: a
\* revise entry has a guidance of at least the minimum length, and no
\* entry's guidance holds a disallowed phrase.  (The log only grows, so
\* the entry is looked at when it is appended.)
C19_LogEntriesValid ==
    [][human_feedback' # human_feedback =>
         LET f == Last(human_feedback') IN
           /\ f.decision = "revise" =>
                 Len(strip(f.guidance)) >= MIN_GUIDANCE_LENGTH
           /\ \A pattern \in dangerous_patterns :
                 ~Contains(lower(f.guidance), pattern)]_vars

\* C20: constructing a HumanFeedback with decision revise and a guidance
\* shorter than the minimum length raises a validation error that cites the
\* minimum length, and gives no feedback object.
C20_ShortRevisionGuidanceRejected ==
    (/\ lib_result.fn = "HumanFeedback"
     /\ lib_result.args[3] = "revise"
     /\ Len(strip(lib_result.args[4])) < MIN_GUIDANCE_LENGTH)
      => /\ ~lib_result.ok
         /\ lib_result.value = None
         /\ Contains(lib_result.error.message, "min 10 characters")

\* the agent's stage runs in this step
StageRuns(agent_id) == node = NodeOfAgent(agent_id) /\ steps' = steps + 1

\* the feedback log of the workflow holds an entry for the checkpoint type
\* the agent takes feedback from
LogHoldsRelevant(agent_id) ==
    CASE graph = "v3" ->
            \E i \in 1..Len(human_feedback) :
                human_feedback[i].checkpoint = agent_checkpoint_prefix(agent_id)
      [] graph = "v2" ->
            \E i \in 1..Len(human_feedback_history) :
                human_feedback_history[i].checkpoint[1] =
                    agent_checkpoint_prefix(agent_id)
      [] OTHER -> FALSE

\* C21: whenever a stage is invoked while the feedback log holds at least
\* one entry relevant to that stage, the input given to the stage contains
\* the rendered feedback block.
C21_FeedbackReachesStage ==
    [][\A agent_id \in Agents :
         (StageRuns(agent_id) /\ LogHoldsRelevant(agent_id)) =>
            /\ llm_input'.agent_id = agent_id
            /\ Len(llm_input'.system) > 1]_vars

\* a builder was called on human_feedback_history
BuilderCalled == lib_result.fn = "build_feedback_context_for_agent"

\* the entries of the history whose checkpoint is of the type the agent
\* takes feedback from, in log order
RelevantEntries(agent_id) ==
    LET OfType(fb) == fb.checkpoint[1] = agent_checkpoint_prefix(agent_id)
    IN SelectSeq(human_feedback_history, OfType)

\* C22: the block built for a stage is made of entries of the one
\* checkpoint type relevant to that stage only: every formatted entry is of
\* that type, no guidance of an entry of another type is in the text, and
\* the block is empty when the log holds no relevant entry.
C22_OnlyRelevantEntries ==
    BuilderCalled =>
      LET agent_id == lib_result.args[2]
          built == lib_result.value IN
        /\ \A i \in 1..Len(built.shown) :
              built.shown[i].checkpoint[1] = agent_checkpoint_prefix(agent_id)
        /\ \A i \in 1..Len(human_feedback_history) :
              LET fb == human_feedback_history[i] IN
                (/\ fb.checkpoint[1] # agent_checkpoint_prefix(agent_id)
                 /\ fb.guidance # "")
                  => ~Contains(built.context, fb.guidance)
        /\ RelevantEntries(agent_id) = <<>> => built.context = ""
        /\ RelevantEntries(agent_id) # <<>> => built.context # ""

\* a block was built from a log that also holds entries of another type
C22_Witness ==
    /\ BuilderCalled
    /\ lib_result.value.context # ""
    /\ Len(RelevantEntries(lib_result.args[2])) < Len(human_feedback_history)

\* C23: a builder called with the state and the stage formats at most 3
\* relevant entries, and when more than 3 are relevant the formatted ones
\* are the 3 most recent, in log order.
C23_MostRecentWindow ==
    (BuilderCalled /\ ~lib_result.args[3]) =>
      LET relevant == RelevantEntries(lib_result.args[2])
          shown == lib_result.value.shown IN
        /\ Len(shown) <= MAX_FEEDBACK_ITEMS_TO_SHOW
        /\ Len(relevant) > MAX_FEEDBACK_ITEMS_TO_SHOW =>
              shown = SubSeq(relevant,
                             Len(relevant) - MAX_FEEDBACK_ITEMS_TO_SHOW + 1,
                             Len(relevant))

\* the text prompt_builder.py has before its length check
Untruncated ==
    Join("\n", feedback_context_lines(lib_result.value.shown))

StoppedBeforeCheckpoint == ~running /\ session_state.debate_running

\* C25: after the user stops the debate, no further stage is started once
\* the run has come to the next stage or checkpoint boundary: no stage
\* starts in a debate that was stopped before its last checkpoint.
C25_StopHonoured ==
    [][StoppedBeforeCheckpoint =>
          \A agent_id \in Agents : ~StageRuns(agent_id)]_vars

\* the feedback history the session shows
SessionFeedbackHistory(lists_now, state_now) ==
    lists_now[state_now.feedback_history]

\* C26: debates share no mutable state: a debate that is started begins
\* with an empty feedback history, in the session and in its debate state.
C26_NewRunStartsEmpty ==
    [][runs' = runs + 1 =>
          /\ SessionFeedbackHistory(session_lists', session_state') = <<>>
          /\ human_feedback' = <<>>]_vars

C28_LogOnlyGrows ==
    [][/\ Len(contributions') >= Len(contributions)
       /\ SubSeq(contributions', 1, Len(contributions)) = contributions]_vars

\* the log has grown through a second round of the stages
C28_Witness == Cardinality(Theses) >= 2 /\ Len(contributions) >= 6

\* the routing of the workflow, on the state as it is, selects synthesis
RoutingSelectsSynthesis ==
    CASE graph = "base" ->
            should_continue_debate(current_consensus_score, cycle_count)
                = "synthesize"
      [] graph = "v2" ->
            should_continue(current_consensus_score, cycle_count, max_cycles,
                            min_cycles) = "checkpoint_pre_synthesis"
      [] graph = "v3" ->
            should_continue_after_gubernator(
                human_feedback, revision_count, current_consensus_score,
                cycle_count, max_cycles) # "katalizator"

\* the stage (agent) that produced the i-th contribution
StageAt(i) == contributions[i].agent_id

\* C29: the stages run in rounds of thesis, antithesis, evaluation, in that
\* order; synthesis runs only straight after an evaluation, when the routing
\* selects it, at most once, and after it the run is terminal: no stage
\* runs again.
C29_StageOrder ==
    /\ contributions # <<>> => StageAt(1) = "Katalizator"
    /\ \A i \in DOMAIN contributions :
          /\ StageAt(i) = "Syntezator" => i = Len(contributions)
          /\ i > 1 =>
               StageAt(i - 1) =
                  CASE StageAt(i) = "Katalizator" -> "Gubernator"
                    [] StageAt(i) = "Sceptyk" -> "Katalizator"
                    [] StageAt(i) = "Gubernator" -> "Sceptyk"
                    [] StageAt(i) = "Syntezator" -> "Gubernator"
    /\ (node = "syntezator" \/ prev = "syntezator") => RoutingSelectsSynthesis
    /\ (\E i \in DOMAIN contributions : StageAt(i) = "Syntezator")
          <=> node = "END"

\* a run of two rounds has ended with the synthesis
C29_Witness ==
    /\ node = "END"
    /\ Cardinality(Theses) = 2
    /\ StageAt(Len(contributions)) = "Syntezator"

\* a feedback object was constructed
Constructed(result) == result.fn = "HumanFeedback" /\ result.ok

\* C30: a feedback entry is identified by the type of the checkpoint it
\* answers combined with the cycle number: two feedbacks of one class that
\* answer checkpoints of the same type reached in different cycles carry
\* different checkpoint identifiers.
C30_IdentifiedByTypeAndCycle ==
    [][(/\ Constructed(lib_result)
        /\ Constructed(lib_result')
        /\ lib_result.args[1] = lib_result'.args[1]
        /\ lib_result.answers[1] = lib_result'.answers[1]
        /\ lib_result.answers[2] # lib_result'.answers[2])
          => lib_result.value.checkpoint # lib_result'.value.checkpoint]_vars

\* C31: every accepted configuration satisfies 1 <= min_cycles <=
\* max_cycles.
C31_CyclesOrdered == 1 <= min_cycles /\ min_cycles <= max_cycles

\* the words of a guidance, in lower case
WordsOf(guidance) ==
    LET words == split(lower(guidance)) IN {words[w] : w \in 1..Len(words)}

\* the guidance has a word of the group
HasWordOf(guidance, group) ==
    WordsOf(guidance) \cap {group[w] : w \in 1..Len(group)} # {}

\* the detector was called
Detected == lib_result.fn = "detect_feedback_contradictions"

\* C32: for every pair of feedbacks from different checkpoints, if the
\* guidance of one has a word of one side of an antonym group and the
\* guidance of the other a word of the opposite side, in either direction,
\* the detector returns a record of severity moderate for that pair.
C32_AntonymsDetected ==
    Detected =>
      \A i, j \in 1..Len(human_feedback_history) :
        \A k \in 1..Len(contradiction_pairs) :
          LET fb1 == human_feedback_history[i]
              fb2 == human_feedback_history[j]
          IN  (/\ i < j
               /\ fb1.checkpoint # fb2.checkpoint
               /\ \/ /\ HasWordOf(fb1.guidance, contradiction_pairs[k][1])
                      /\ HasWordOf(fb2.guidance, contradiction_pairs[k][2])
                  \/ /\ HasWordOf(fb1.guidance, contradiction_pairs[k][2])
                      /\ HasWordOf(fb2.guidance, contradiction_pairs[k][1]))
              => \E r \in 1..Len(lib_result.value) :
                   LET record == lib_result.value[r] IN
                   /\ record.severity = "moderate"
                   /\ record.feedback_1.checkpoint = fb1.checkpoint
                   /\ record.feedback_1.guidance = fb1.guidance
                   /\ record.feedback_2.checkpoint = fb2.checkpoint
                   /\ record.feedback_2.guidance = fb2.guidance

\* the detector was called on a history whose third feedback asks for
\* detail and whose first, from another checkpoint, asked for less
C32_Witness ==
    /\ Detected
    /\ Len(human_feedback_history) = 3
    /\ human_feedback_history[1].guidance = "Add more detail"
    /\ human_feedback_history[3].guidance = "make it shorter"
    /\ human_feedback_history[1].checkpoint
         # human_feedback_history[3].checkpoint
    /\ Len(lib_result.value) > 0

\* the structural tier was called
StructuralScored == lib_result.fn = "compute_structural_change_score"

\* C33: the structural score of a non-empty text against itself is 0.0,
\* and the structural score of the empty text against any text is 0.0.
C33_StructuralZero ==
    (/\ StructuralScored
     /\ \/ lib_result.args[1] = lib_result.args[2]
        \/ lib_result.args[1] = "")
      => lib_result.value.num = 0

\* a text of several words was scored against itself
C33_Witness ==
    /\ StructuralScored
    /\ lib_result.args[1] = "The plan is short"
    /\ lib_result.args[2] = "The plan is short"
    /\ lib_result.value.num = 0

\* the step is a call of the effectiveness scorer
EffectivenessScored ==
    /\ lib_result' # lib_result
    /\ lib_result'.fn = "compute_feedback_effectiveness"

\* the call used the semantic tier and the tier failed: the LLM raised, or
\* its response held no number
SemanticTierFailed(result) ==
    /\ result.args[4]
    /\ result.args[5] \in {"raises", "high"}

\* C34: a call of the effectiveness scorer returns a score and leaves the
\* debate state, the position of the run included, as it was, also when the
\* semantic tier fails, and then the semantic score is the neutral 0.5.
C34_ScorerLeavesDebate ==
    [][EffectivenessScored
         => /\ UNCHANGED <<config, node, prev, waiting, steps, contributions,
                           current_consensus_score, cycle_count, final_plan,
                           current_checkpoint, paused_at, human_feedback,
                           hitl3, hitl2, lists, checkpoint_history>>
            /\ lib_result'.ok
            /\ SemanticTierFailed(lib_result')
                 => lib_result'.value.semantic = <<50>>]_vars

\* the scorer was called in the middle of a run, its LLM raised, and the run
\* went on to its end
C34_Witness ==
    /\ lib_result.fn = "compute_feedback_effectiveness"
    /\ lib_result.args[5] = "raises"
    /\ lib_result.ok
    /\ node = "END"
    /\ final_plan = "FinalPlan"

\* the thread of runner r is blocked in feedback_queue.get()
Blocked(r) == runners[r].pc = "get" /\ runners[r].feedback_queue = <<>>

\* C35: whenever the debate thread is blocked at a checkpoint waiting for
\* feedback and the UI has finished its handler, the session has
\* awaiting_feedback true and current_checkpoint holding that checkpoint's
\* data, so the checkpoint can still be answered.  (Stated for a session
\* that has started one debate.)
C35_WaitingCheckpointShown ==
    \A r \in 1..Len(runners) :
      (/\ Len(runners) = 1
       /\ session_state.debate_runner = r
       /\ Blocked(r)
       /\ ui.pc = "idle")
        => /\ session_state.awaiting_feedback
           /\ session_state.current_checkpoint
                = CheckpointData(r, runners[r].checkpoint)

\* C36: each feedback a debate thread consumes at a checkpoint was submitted
\* in answer to that checkpoint.
C36_ConsumedAnswersCheckpoint ==
    [][\A r \in 1..Len(runners) :
         (runners[r].pc = "get" /\ runners'[r].pc = "run")
           => Head(runners[r].feedback_queue).checkpoint
                = CheckpointData(r, runners[r].checkpoint)]_vars

\* C39: when reset returns, cleanup has been called on the runner the
\* session held before it and the runner is not marked running.
C39_ResetCleansRunner ==
    [][(/\ session_state.debate_runner # 0
        /\ session_state'.debate_runner # session_state.debate_runner)
         => /\ runners'[session_state.debate_runner].cleanup_called
            /\ ~runners'[session_state.debate_runner].running]_vars

\* C37: tracking a revision for one checkpoint leaves the revision counts
\* of all other checkpoints as they were, once the update track_revision
\* returned is merged.
C37_OtherCountsKept ==
    [][(track_calls' # track_calls /\ lib_result'.ok)
         => \A checkpoint \in DOMAIN revision_count_per_checkpoint :
              checkpoint # Last(track_calls')
                => Get(revision_count_per_checkpoint', checkpoint)
                     = revision_count_per_checkpoint[checkpoint]]_vars

\* the role tag of the contributions of a stage
RoleTagOf(agent_id) ==
    CASE agent_id = "Katalizator" -> "Thesis"
      [] agent_id = "Sceptyk" -> "Antithesis"
      [] agent_id = "Gubernator" -> "Evaluation"
      [] agent_id = "Syntezator" -> "FinalPlan"

\* C40: every contribution in the log carries the role tag of the stage
\* that produced it, and only the contributions of the synthesis stage are
\* tagged as a final plan.
C40_RoleTags ==
    \A i \in 1..Len(contributions) :
        contributions[i].type = RoleTagOf(StageAt(i))

\* C38: the classification cache never holds more than cache_size entries,
\* also when several calls insert into it concurrently.
C38_CacheBounded == Len(cache) <= cache_size

====
